---- MODULE Spec2Model ----
(***************************************************************************)
(* Model of the quiz client (src/components/old.App.tsx.2): the parser of  *)
(* the generated quiz text and the quiz session state machine.             *)
(*                                                                         *)
(* A JavaScript string is modelled as a sequence of one-character strings, *)
(* so that split, trim, startsWith and substring are computed on the       *)
(* characters as the code computes them.                                   *)
(***************************************************************************)
EXTENDS Integers, Sequences, FiniteSets, TLC

\* ------------------------------------------------------------------------
\* Bounds of the model
\* ------------------------------------------------------------------------

\* Largest number of "Q<n>:" blocks in a generated quiz text.
MaxBlocks == 4

\* Largest number of blocks in a text that holds a block of another shape
\* than the grammar's.
MaxVaried == 3

\* The user clicks one of the first MaxChoice of the four option buttons.
MaxChoice == 2

\* Largest number of setInterval timers of handleSubmit alive at a time.
MaxTimers == 3

\* ------------------------------------------------------------------------
\* String primitives (String.prototype.* as used by the client)
\* ------------------------------------------------------------------------

Min(S) == CHOOSE x \in S : \A y \in S : x <= y

Max(S) == CHOOSE x \in S : \A y \in S : x >= y

Digits == {"0", "1", "2", "3", "4", "5", "6", "7", "8", "9"}

\* White space and line terminators that String.prototype.trim removes.
IsSpace(c) == c \in {" ", "\n"}

\* s.trim()
Trim(s) ==
    IF \A i \in 1..Len(s) : IsSpace(s[i]) THEN <<>>
    ELSE LET lead  == CHOOSE k \in 0..(Len(s) - 1) :
                          /\ ~IsSpace(s[k + 1])
                          /\ \A j \in 1..k : IsSpace(s[j])
             trail == CHOOSE k \in 0..(Len(s) - 1) :
                          /\ ~IsSpace(s[Len(s) - k])
                          /\ \A j \in 0..(k - 1) : IsSpace(s[Len(s) - j])
         IN  SubSeq(s, lead + 1, Len(s) - trail)

\* s.startsWith(p)
StartsWith(s, p) == Len(s) >= Len(p) /\ SubSeq(s, 1, Len(p)) = p

\* s.substring(n)
Substring(s, n) == SubSeq(s, n + 1, Len(s))

\* s.split('\n')
SplitLines(s) ==
    LET nl     == {i \in 1..Len(s) : s[i] = "\n"}
        cut(k) == IF k = 0 THEN 0
                  ELSE IF k = Cardinality(nl) + 1 THEN Len(s) + 1
                  ELSE CHOOSE p \in nl : Cardinality({q \in nl : q < p}) = k - 1
    IN  [k \in 1..(Cardinality(nl) + 1) |-> SubSeq(s, cut(k - 1) + 1, cut(k) - 1)]

\* End of the match of /Q\d+:/ that starts at position i of s, 0 if none:
\* "Q", then the maximal run of digits (at least one), then ":".
MarkerEnd(s, i) ==
    IF i > Len(s) \/ s[i] # "Q" THEN 0
    ELSE LET nondigit == {j \in (i + 1)..Len(s) : s[j] \notin Digits}
             stop     == IF nondigit = {} THEN Len(s) + 1 ELSE Min(nondigit)
         IN  IF stop > i + 1 /\ stop <= Len(s) /\ s[stop] = ":" THEN stop ELSE 0

\* s.split(/Q\d+:/): the pieces before, between and after the matches. Two
\* matches never overlap (a match holds no "Q" after its first character),
\* so every position where the pattern matches starts a separator.
SplitMarkers(s) ==
    LET starts   == {i \in 1..Len(s) : MarkerEnd(s, i) # 0}
        n        == Cardinality(starts)
        start(k) == CHOOSE p \in starts : Cardinality({q \in starts : q < p}) = k - 1
        from(k)  == IF k = 1 THEN 1 ELSE MarkerEnd(s, start(k - 1)) + 1
        to(k)    == IF k = n + 1 THEN Len(s) ELSE start(k) - 1
    IN  [k \in 1..(n + 1) |-> SubSeq(s, from(k), to(k))]

\* ------------------------------------------------------------------------
\* parseQuizText
\* ------------------------------------------------------------------------

PrefixA == <<"A", ".">>

PrefixB == <<"B", ".">>

PrefixC == <<"C", ".">>

PrefixD == <<"D", ".">>

PrefixAnswer == <<"A", "n", "s", "w", "e", "r", ":">>

PrefixExplanation == <<"E", "x", "p", "l", "a", "n", "a", "t", "i", "o", "n", ":">>

\* The accumulators of one block before its lines are scanned.
EmptyFields ==
    [A |-> <<>>, B |-> <<>>, C |-> <<>>, D |-> <<>>,
     correctAnswer |-> <<>>, explanation |-> <<>>]

\* The body of lines.forEach: the if / else-if chain on the trimmed line.
ClassifyLine(line, acc) ==
    LET trimmedLine == Trim(line)
    IN  IF StartsWith(trimmedLine, PrefixA)
          THEN [acc EXCEPT !.A = Trim(Substring(trimmedLine, 2))]
        ELSE IF StartsWith(trimmedLine, PrefixB)
          THEN [acc EXCEPT !.B = Trim(Substring(trimmedLine, 2))]
        ELSE IF StartsWith(trimmedLine, PrefixC)
          THEN [acc EXCEPT !.C = Trim(Substring(trimmedLine, 2))]
        ELSE IF StartsWith(trimmedLine, PrefixD)
          THEN [acc EXCEPT !.D = Trim(Substring(trimmedLine, 2))]
        ELSE IF StartsWith(trimmedLine, PrefixAnswer)
          THEN [acc EXCEPT !.correctAnswer = Trim(Substring(trimmedLine, 7))]
        ELSE IF StartsWith(trimmedLine, PrefixExplanation)
          THEN [acc EXCEPT !.explanation = Trim(Substring(trimmedLine, 12))]
        ELSE acc

\* lines.forEach(...) from line i on.
RECURSIVE ScanLines(_, _, _)
ScanLines(lines, i, acc) ==
    IF i > Len(lines) THEN acc
    ELSE ScanLines(lines, i + 1, ClassifyLine(lines[i], acc))

\* block.trim().split('\n').filter(line => line.trim())
BlockLines(block) ==
    SelectSeq(SplitLines(Trim(block)), LAMBDA line : Trim(line) # <<>>)

\* The callback of questionBlocks.forEach for one block: the questions it
\* pushes (none or one). index is the JavaScript index of the block.
ParseBlock(block, index) ==
    IF index = 0 \/ Trim(block) = <<>> THEN <<>>
    ELSE LET lines == BlockLines(block)
         IN  IF Len(lines) < 6 THEN <<>>
             ELSE LET questionText == Trim(lines[1])
                      f            == ScanLines(lines, 1, EmptyFields)
                  IN  IF /\ questionText # <<>>
                         /\ f.A # <<>> /\ f.B # <<>> /\ f.C # <<>> /\ f.D # <<>>
                         /\ f.correctAnswer # <<>>
                      THEN << [id            |-> index,
                               question      |-> questionText,
                               options       |-> [A |-> f.A, B |-> f.B,
                                                  C |-> f.C, D |-> f.D],
                               correctAnswer |-> f.correctAnswer,
                               explanation   |-> f.explanation] >>
                      ELSE <<>>

\* A forEach that counts the pieces from one
RECURSIVE ParseFromCountingFromOne(_, _)
ParseFromCountingFromOne(questionBlocks, k) ==
    IF k > Len(questionBlocks) THEN <<>>
    ELSE ParseBlock(questionBlocks[k], k)
           \o ParseFromCountingFromOne(questionBlocks, k + 1)

\* questionBlocks.forEach(...) from the k-th piece on (JavaScript index k-1).
RECURSIVE ParseFrom(_, _)
ParseFrom(questionBlocks, k) ==
    IF k > Len(questionBlocks) THEN <<>>
    ELSE ParseBlock(questionBlocks[k], k - 1) \o ParseFrom(questionBlocks, k + 1)

parseQuizText(quizText) == ParseFrom(SplitMarkers(quizText), 1)

\* ------------------------------------------------------------------------
\* Generated quiz texts (the "quiz" field of the service's answer)
\* ------------------------------------------------------------------------

Letters == <<"A", "B", "C", "D">>

\* The decimal digit of a block number below ten.
DigitOf(n) == <<"0", "1", "2", "3", "4", "5", "6", "7", "8", "9">>[n + 1]

\* "Q<n>:"
Marker(n) == <<"Q", DigitOf(n), ":">>

\* "<letter>. <text>\n"
OptionLine(letter, text) == <<letter, ".", " ">> \o text \o <<"\n">>

\* "Answer: <text>\n"
AnswerLine(text) == PrefixAnswer \o <<" ">> \o text \o <<"\n">>

\* "Explanation: e\n"
ExplanationLine == PrefixExplanation \o <<" ", "e", "\n">>

\* The answer letter a block of the grammar names: A in odd blocks, B in
\* even ones.
KeyOf(n) == IF n % 2 = 1 THEN "A" ELSE "B"

\* The shapes of a block the service may send.
\*   good        every line of the grammar, no explanation
\*   explained   good, with the optional explanation
\*   verbose     "Answer: <letter>. b": text follows the letter
\*   outOfRange  "Answer: E"
\*   noD         option D missing (explanation present: six lines)
\*   noDShort    option D missing (five lines)
\*   emptyC      "C." with no option text
\*   noAnswer    answer line missing
\*   noQText     nothing after the marker on its line
BlockKinds ==
    {"good", "explained", "verbose", "outOfRange", "noD", "noDShort",
     "emptyC", "noAnswer", "noQText"}

\* The n-th block of a text, of the given shape.
BlockText(n, kind) ==
    LET q    == IF kind = "noQText" THEN <<"\n">> ELSE <<" ", "t", "\n">>
        a    == OptionLine("A", <<"a">>)
        b    == OptionLine("B", <<"b">>)
        c    == IF kind = "emptyC" THEN <<"C", ".", "\n">>
                ELSE OptionLine("C", <<"c">>)
        d    == IF kind \in {"noD", "noDShort"} THEN <<>>
                ELSE OptionLine("D", <<"d">>)
        ans  == IF kind = "noAnswer" THEN <<>>
                ELSE IF kind = "verbose"
                  THEN AnswerLine(<<KeyOf(n), ".", " ", "b">>)
                ELSE IF kind = "outOfRange" THEN AnswerLine(<<"E">>)
                ELSE AnswerLine(<<KeyOf(n)>>)
        expl == IF kind \in {"explained", "noD", "noAnswer", "noQText", "emptyC"}
                THEN ExplanationLine ELSE <<>>
    IN  Marker(n) \o q \o a \o b \o c \o d \o ans \o expl \o <<"\n">>

\* The text of the blocks 1..Len(kinds), block i of shape kinds[i], from
\* block k on.
RECURSIVE BlocksFrom(_, _)
BlocksFrom(kinds, k) ==
    IF k > Len(kinds) THEN <<>>
    ELSE BlockText(k, kinds[k]) \o BlocksFrom(kinds, k + 1)

\* Block shapes of a text: up to MaxBlocks good blocks, or up to MaxVaried
\* blocks of which one has any shape.
Layouts ==
    {[i \in 1..n |-> "good"] : n \in 0..MaxBlocks}
      \cup UNION { {[i \in 1..n |-> IF i = v THEN kind ELSE "good"] :
                       v \in 1..n, kind \in BlockKinds}
                   : n \in 1..MaxVaried }

\* What may precede the first marker.
Preambles == {<<>>, <<"h", "i", "\n">>}

\* The text the service hands out: data.choices[0]?.message?.content?.trim()
QuizText(pre, kinds) == Trim(pre \o BlocksFrom(kinds, 1))

\* ------------------------------------------------------------------------
\* State of the App component
\* ------------------------------------------------------------------------

VARIABLES
    file,                  \* useState<File | null>: NoFile or a file name
    numQuestions,          \* useState<number>(5)
    loading,               \* useState<boolean>(false)
    error,                 \* useState<string>("")
    uploadProgress,        \* useState<number>(0)
    fullQuizData,          \* useState<Question[]>([]): the question pool
    currentQuiz,           \* useState<Question[]>([]): the sample
    currentQuestionIndex,  \* useState<number>(0), counted from 0
    userAnswers,           \* useState<UserAnswer[]>([])
    quizCompleted,         \* useState<boolean>(false)
    showResults,           \* useState<boolean>(false)
    pc,                    \* where handleSubmit stands: "idle", "fetch", "json"
    res,                   \* handleSubmit's local res: the answer to the fetch
    progressInterval,      \* number of live setInterval timers of handleSubmit
    scoreShown,            \* what the results section displays: <<>> or <<correct, total>>
    lastOp,                \* history: the name of the last step taken
    \* the API route /api/generate-quiz
    request,               \* the request the handler is serving
    env,                   \* process.env as the handler reads it
    sPc,                   \* where the handler stands: "wait", "parseForm",
                           \* "adapter", "fetch", "done"
    response,              \* what the handler has answered: status and body
    validation,            \* history: the outcome of validateFile
    fileRead,              \* history: fs.readFileSync(file.filepath) was called
    adapter,               \* history: the extension whose adapter was called
    generationCalls,       \* history: number of fetches to the completion service
    failure,               \* history: the stage that ended the request in an error
    worker,                \* the tesseract worker of extractText: "none", "active",
                           \* "terminated"
    pending,               \* how the try block of the image case ended while its
                           \* finally runs: <<>>, <<"return", text>>, <<"throw", message>>
    tempFile,              \* the file formidable stored for the upload exists
    extractedText,         \* <<>>, or <<text>> once extractText has returned text
    calls,                 \* history: the functions called for this request
    service,               \* history: how the fetch to the completion service ended
    prompt,                \* history: what generateQuiz has put into its prompt
    \* the earlier revisions of the App component in src/quiz_app.py.v1
    fileSize,              \* file.size of the selected file
    noticeTimers,          \* number of pending setTimeout(() => setError(""), 2000)
    quizStatus,            \* useState("welcome") of status: "welcome", "loading",
                           \* "quiz", "results"
    quizQuestions,         \* useState<QuizQuestion[]>([])
    activeQuestion,        \* useState(0), counted from 0
    score,                 \* useState(0)
    advanceTimers          \* number of pending setTimeout(() => setActiveQuestion(a => a + 1), 300)

vars ==
    <<file, numQuestions, loading, error, uploadProgress, fullQuizData,
      currentQuiz, currentQuestionIndex, userAnswers, quizCompleted,
      showResults, pc, res, progressInterval, scoreShown, lastOp,
      request, env, sPc, response, validation, fileRead, adapter,
      generationCalls, failure, worker, pending, tempFile, extractedText,
      calls, service, prompt,
      fileSize, noticeTimers, quizStatus, quizQuestions, activeQuestion,
      score, advanceTimers>>

\* The state of the App component
clientVars ==
    <<file, numQuestions, loading, error, uploadProgress, fullQuizData,
      currentQuiz, currentQuestionIndex, userAnswers, quizCompleted,
      showResults, pc, res, progressInterval, scoreShown>>

\* The state of the API route
serverVars ==
    <<request, env, sPc, response, validation, fileRead, adapter,
      generationCalls, failure, worker, pending, tempFile, extractedText,
      calls, service, prompt>>

\* The state that only the earlier revisions of the App component have
legacyVars ==
    <<fileSize, noticeTimers, quizStatus, quizQuestions, activeQuestion,
      score, advanceTimers>>

NoFile == ""

\* The file the user picks.
Files == {"notes.txt"}

\* The <option value> entries of the numQuestions select.
NumQuestionsOptions == {3, 5, 7, 10}

NoResponse == [ok |-> FALSE, quiz |-> <<>>, error |-> ""]

\* Answers of /api/generate-quiz: 200 with a quiz text (never an empty one:
\* the service rejects it), or an error status with an error message.
Responses ==
    {[ok |-> TRUE, quiz |-> text, error |-> ""] :
        text \in {QuizText(pre, kinds) : pre \in Preambles, kinds \in Layouts} \ {<<>>}}
      \cup {[ok |-> FALSE, quiz |-> <<>>,
              error |-> "OpenAI quota exceeded. Please try again later."]}

NoValidQuestions == "No valid questions could be parsed from the generated quiz"


\* No request is being served.
NoRequest ==
    [method |-> "", userId |-> "", hasFile |-> FALSE, originalFilename |-> <<>>,
     mimetype |-> "", size |-> 0, content |-> <<>>, formError |-> <<>>,
     fields |-> [numQuestions |-> <<>>]]

\* Nothing has been answered.
NoReply == [status |-> 0, code |-> "", error |-> <<>>, quiz |-> <<>>, details |-> <<>>]

\* The completion service has not been asked.
NoOutcome == [kind |-> "none", status |-> 0, text |-> <<>>]

\* generateQuiz has built no prompt.
NoPrompt == [numQuestions |-> 0, content |-> <<>>, more |-> ""]

\* process.env of a deployed server
DeployedEnv == [OPENAI_API_KEY |-> TRUE, NODE_ENV |-> "production"]

Init ==
    /\ file = NoFile
    /\ numQuestions = 5
    /\ loading = FALSE
    /\ error = ""
    /\ uploadProgress = 0
    /\ fullQuizData = <<>>
    /\ currentQuiz = <<>>
    /\ currentQuestionIndex = 0
    /\ userAnswers = <<>>
    /\ quizCompleted = FALSE
    /\ showResults = FALSE
    /\ pc = "idle"
    /\ res = NoResponse
    /\ progressInterval = 0
    /\ scoreShown = <<>>
    /\ lastOp = "init"
    /\ request = NoRequest
    /\ env = DeployedEnv
    /\ sPc = "wait"
    /\ response = NoReply
    /\ validation = "none"
    /\ fileRead = FALSE
    /\ adapter = ""
    /\ generationCalls = 0
    /\ failure = ""
    /\ worker = "none"
    /\ pending = <<>>
    /\ tempFile = FALSE
    /\ extractedText = <<>>
    /\ calls = {}
    /\ service = NoOutcome
    /\ prompt = NoPrompt
    /\ fileSize = 0
    /\ noticeTimers = 0
    /\ quizStatus = "welcome"
    /\ quizQuestions = <<>>
    /\ activeQuestion = 0
    /\ score = 0
    /\ advanceTimers = 0

\* ------------------------------------------------------------------------
\* What is rendered
\* ------------------------------------------------------------------------

\* {!currentQuiz.length && !showResults && (...)}
UploadVisible == Len(currentQuiz) = 0 /\ ~showResults

\* const currentQuestion = currentQuiz[currentQuestionIndex] is defined
HasCurrentQuestion == currentQuestionIndex + 1 \in 1..Len(currentQuiz)

currentQuestion == currentQuiz[currentQuestionIndex + 1]

\* The quiz section rendered next to the results as well
QuizVisibleWithResults == Len(currentQuiz) > 0 /\ HasCurrentQuestion

\* {currentQuiz.length > 0 && !showResults && currentQuestion && (...)}
QuizVisible == Len(currentQuiz) > 0 /\ ~showResults /\ HasCurrentQuestion

\* {showResults && (...)}
ResultsVisible == showResults

\* answers.find(a => a.questionId === id): the position of the first such
\* answer, 0 if there is none.
FindAnswer(answers, id) ==
    LET hits == {i \in 1..Len(answers) : answers[i].questionId = id}
    IN  IF hits = {} THEN 0 ELSE Min(hits)

\* currentUserAnswer is truthy
HasCurrentUserAnswer ==
    HasCurrentQuestion /\ FindAnswer(userAnswers, currentQuestion.id) # 0

\* The Next button without its disabled attribute
NextAlwaysEnabled == TRUE

\* The Next button: disabled={!currentUserAnswer}
NextEnabled == HasCurrentUserAnswer

\* The Previous button: disabled={currentQuestionIndex === 0}
PrevEnabled == currentQuestionIndex # 0

\* The keys of the option buttons the user clicks: Object.entries(options)
\* yields A, B, C, D.
OptionKeys == {<<Letters[k]>> : k \in 1..MaxChoice}

\* ------------------------------------------------------------------------
\* Operations
\* ------------------------------------------------------------------------

\* A draw with replacement: any position may be taken more than once.
ShufflesWithReplacement(questions) ==
    {[i \in 1..Len(questions) |-> questions[p[i]]] :
        p \in [1..Len(questions) -> 1..Len(questions)]}

\* [...questions].sort(() => Math.random() - 0.5): with a comparator that
\* answers at random the result is some rearrangement of the array.
Shuffles(questions) ==
    {[i \in 1..Len(questions) |-> questions[p[i]]] :
        p \in Permutations(1..Len(questions))}

\* Slice with the end index off by one: array.slice(0, n + 1)
SliceOneMore(array, n) ==
    SubSeq(array, 1, IF n + 1 < Len(array) THEN n + 1 ELSE Len(array))

\* array.slice(0, n)
Slice(array, n) == SubSeq(array, 1, IF n < Len(array) THEN n ELSE Len(array))

\* resetQuiz(), without its setError("")
ClearProgress ==
    /\ currentQuestionIndex' = 0
    /\ userAnswers' = <<>>
    /\ quizCompleted' = FALSE
    /\ showResults' = FALSE

\* startQuiz without its setUserAnswers([])
startQuizKeepsAnswers(questions) ==
    /\ \E shuffled \in Shuffles(questions) :
          currentQuiz' = Slice(shuffled, numQuestions)
    /\ currentQuestionIndex' = 0
    /\ userAnswers' = userAnswers
    /\ quizCompleted' = FALSE
    /\ showResults' = FALSE

\* startQuiz(questions)
startQuiz(questions) ==
    /\ \E shuffled \in Shuffles(questions) :
          currentQuiz' = Slice(shuffled, numQuestions)
    /\ currentQuestionIndex' = 0
    /\ userAnswers' = <<>>
    /\ quizCompleted' = FALSE
    /\ showResults' = FALSE

\* calculateScore counting every answered question
calculateScoreAnswered(quiz, answers) ==
    Cardinality({i \in 1..Len(quiz) : FindAnswer(answers, quiz[i].id) # 0})

\* calculateScore()
calculateScore(quiz, answers) ==
    Cardinality({i \in 1..Len(quiz) :
        LET at == FindAnswer(answers, quiz[i].id)
        IN  at # 0 /\ answers[at].selectedAnswer = quiz[i].correctAnswer})

\* The user picks a file in the file input of the upload section.
handleFileChange ==
    /\ lastOp' = "handleFileChange"
    /\ UNCHANGED <<serverVars, legacyVars>>
    /\ UploadVisible /\ ~loading
    /\ \E selectedFile \in Files : file' = selectedFile
    /\ error' = ""
    /\ ClearProgress
    /\ UNCHANGED <<numQuestions, loading, uploadProgress, fullQuizData,
                   currentQuiz, pc, res, progressInterval, scoreShown>>

\* The user changes the numQuestions select of the upload section.
setNumQuestions ==
    /\ lastOp' = "setNumQuestions"
    /\ UNCHANGED <<serverVars, legacyVars>>
    /\ UploadVisible /\ ~loading
    /\ \E n \in NumQuestionsOptions : numQuestions' = n
    /\ UNCHANGED <<file, loading, error, uploadProgress, fullQuizData,
                   currentQuiz, currentQuestionIndex, userAnswers,
                   quizCompleted, showResults, pc, res, progressInterval,
                   scoreShown>>

\* handleSubmit up to its await fetch(...). The submit button is
\* disabled={!file || loading}, so the handler's own "Please select a file"
\* return is never taken.
handleSubmit ==
    /\ lastOp' = "handleSubmit"
    /\ UNCHANGED <<serverVars, legacyVars>>
    /\ UploadVisible /\ file # NoFile /\ ~loading /\ pc = "idle"
    /\ loading' = TRUE
    /\ error' = ""
    /\ uploadProgress' = 0
    /\ ClearProgress
    /\ progressInterval' = progressInterval + 1
    /\ pc' = "fetch"
    /\ UNCHANGED <<file, numQuestions, fullQuizData, currentQuiz, res, scoreShown>>

\* The setInterval callback of handleSubmit.
progressTick ==
    /\ lastOp' = "progressTick"
    /\ UNCHANGED <<serverVars, legacyVars>>
    /\ progressInterval > 0
    /\ uploadProgress' = IF uploadProgress + 10 < 90 THEN uploadProgress + 10 ELSE 90
    /\ UNCHANGED <<file, numQuestions, loading, error, fullQuizData, currentQuiz,
                   currentQuestionIndex, userAnswers, quizCompleted, showResults,
                   pc, res, progressInterval, scoreShown>>

\* fetch resolves: handleSubmit up to its await res.json().
fetchResolves ==
    /\ lastOp' = "fetchResolves"
    /\ UNCHANGED <<serverVars, legacyVars>>
    /\ pc = "fetch"
    /\ \E r \in Responses : res' = r
    /\ progressInterval' = progressInterval - 1
    /\ uploadProgress' = 100
    /\ pc' = "json"
    /\ UNCHANGED <<file, numQuestions, loading, error, fullQuizData, currentQuiz,
                   currentQuestionIndex, userAnswers, quizCompleted, showResults,
                   scoreShown>>

\* error.message of the TypeError a fetch rejects with
FailedToFetch == "Failed to fetch"

\* fetch rejects (no connection): control leaves the try block before
\* clearInterval(progressInterval), so the timer stays alive; the catch sets
\* the error and the finally ends handleSubmit.
fetchRejects ==
    /\ lastOp' = "fetchRejects"
    /\ UNCHANGED <<serverVars, legacyVars>>
    /\ pc = "fetch"
    /\ progressInterval < MaxTimers
    /\ error' = FailedToFetch
    /\ loading' = FALSE
    /\ uploadProgress' = 0
    /\ pc' = "idle"
    /\ UNCHANGED <<file, numQuestions, fullQuizData, currentQuiz,
                   currentQuestionIndex, userAnswers, quizCompleted, showResults,
                   res, progressInterval, scoreShown>>

\* res.json() resolves: the rest of handleSubmit, its catch and its finally.
jsonResolves ==
    /\ lastOp' = "jsonResolves"
    /\ UNCHANGED <<serverVars, legacyVars>>
    /\ pc = "json"
    /\ IF ~res.ok
         THEN /\ error' = res.error
              /\ UNCHANGED <<fullQuizData, currentQuiz, currentQuestionIndex,
                             userAnswers, quizCompleted, showResults>>
         ELSE LET parsedQuestions == parseQuizText(res.quiz)
              IN  IF Len(parsedQuestions) = 0
                    THEN /\ error' = NoValidQuestions
                         /\ UNCHANGED <<fullQuizData, currentQuiz,
                                        currentQuestionIndex, userAnswers,
                                        quizCompleted, showResults>>
                    ELSE /\ fullQuizData' = parsedQuestions
                         /\ startQuiz(parsedQuestions)
                         /\ UNCHANGED error
    /\ loading' = FALSE
    /\ uploadProgress' = 0
    /\ pc' = "idle"
    /\ res' = NoResponse
    /\ UNCHANGED <<file, numQuestions, progressInterval, scoreShown>>

\* selectAnswer without its filter: the new answer is pushed onto the old
\* array.
selectAnswerAppend ==
    /\ lastOp' = "selectAnswer"
    /\ UNCHANGED <<serverVars, legacyVars>>
    /\ QuizVisible
    /\ \E answer \in OptionKeys :
          userAnswers' =
            Append(userAnswers, [questionId     |-> currentQuestion.id,
                                 selectedAnswer |-> answer])
    /\ UNCHANGED <<file, numQuestions, loading, error, uploadProgress, fullQuizData,
                   currentQuiz, currentQuestionIndex, quizCompleted, showResults,
                   pc, res, progressInterval, scoreShown>>

\* A selectAnswer that records the position of the question in place of
\* its id
selectAnswerByPosition ==
    /\ lastOp' = "selectAnswer"
    /\ UNCHANGED <<serverVars, legacyVars>>
    /\ QuizVisible
    /\ \E answer \in OptionKeys :
          LET newAnswers ==
                SelectSeq(userAnswers,
                          LAMBDA a : a.questionId # currentQuestionIndex + 1)
          IN  userAnswers' =
                Append(newAnswers, [questionId     |-> currentQuestionIndex + 1,
                                    selectedAnswer |-> answer])
    /\ UNCHANGED <<file, numQuestions, loading, error, uploadProgress, fullQuizData,
                   currentQuiz, currentQuestionIndex, quizCompleted, showResults,
                   pc, res, progressInterval, scoreShown>>

\* The user clicks an option button of the quiz section.
selectAnswer ==
    /\ lastOp' = "selectAnswer"
    /\ UNCHANGED <<serverVars, legacyVars>>
    /\ QuizVisible
    /\ \E answer \in OptionKeys :
          LET newAnswers ==
                SelectSeq(userAnswers, LAMBDA a : a.questionId # currentQuestion.id)
          IN  userAnswers' =
                Append(newAnswers, [questionId     |-> currentQuestion.id,
                                    selectedAnswer |-> answer])
    /\ UNCHANGED <<file, numQuestions, loading, error, uploadProgress, fullQuizData,
                   currentQuiz, currentQuestionIndex, quizCompleted, showResults,
                   pc, res, progressInterval, scoreShown>>

\* A nextQuestion without its test for the last question
nextQuestionNeverFinishes ==
    /\ lastOp' = "nextQuestion"
    /\ UNCHANGED <<serverVars, legacyVars>>
    /\ QuizVisible /\ NextEnabled
    /\ currentQuestionIndex' = currentQuestionIndex + 1
    /\ UNCHANGED <<quizCompleted, showResults>>
    /\ UNCHANGED <<file, numQuestions, loading, error, uploadProgress, fullQuizData,
                   currentQuiz, userAnswers, pc, res, progressInterval, scoreShown>>

\* The user clicks the Next / Finish Quiz button.
nextQuestion ==
    /\ lastOp' = "nextQuestion"
    /\ UNCHANGED <<serverVars, legacyVars>>
    /\ QuizVisible /\ NextEnabled
    /\ IF currentQuestionIndex < Len(currentQuiz) - 1
         THEN /\ currentQuestionIndex' = currentQuestionIndex + 1
              /\ UNCHANGED <<quizCompleted, showResults>>
         ELSE /\ quizCompleted' = TRUE
              /\ showResults' = TRUE
              /\ UNCHANGED currentQuestionIndex
    /\ UNCHANGED <<file, numQuestions, loading, error, uploadProgress, fullQuizData,
                   currentQuiz, userAnswers, pc, res, progressInterval, scoreShown>>

\* A prevQuestion that steps back wherever the cursor is
prevQuestionUnchecked ==
    /\ lastOp' = "prevQuestion"
    /\ UNCHANGED <<serverVars, legacyVars>>
    /\ QuizVisible
    /\ currentQuestionIndex' = currentQuestionIndex - 1
    /\ UNCHANGED <<file, numQuestions, loading, error, uploadProgress, fullQuizData,
                   currentQuiz, userAnswers, quizCompleted, showResults, pc, res,
                   progressInterval, scoreShown>>

\* The Previous button wired to setCurrentQuestionIndex(0).
prevQuestionToStart ==
    /\ lastOp' = "prevQuestion"
    /\ UNCHANGED <<serverVars, legacyVars>>
    /\ QuizVisible /\ PrevEnabled
    /\ currentQuestionIndex' = 0
    /\ UNCHANGED <<file, numQuestions, loading, error, uploadProgress, fullQuizData,
                   currentQuiz, userAnswers, quizCompleted, showResults, pc, res,
                   progressInterval, scoreShown>>

\* The user clicks the Previous button.
prevQuestion ==
    /\ lastOp' = "prevQuestion"
    /\ UNCHANGED <<serverVars, legacyVars>>
    /\ QuizVisible /\ PrevEnabled
    /\ IF currentQuestionIndex > 0
         THEN currentQuestionIndex' = currentQuestionIndex - 1
         ELSE UNCHANGED currentQuestionIndex
    /\ UNCHANGED <<file, numQuestions, loading, error, uploadProgress, fullQuizData,
                   currentQuiz, userAnswers, quizCompleted, showResults, pc, res,
                   progressInterval, scoreShown>>

\* A disabled Next button that still runs nextQuestion, which has no test
\* of its own.
nextQuestionUnguarded ==
    /\ lastOp' = "nextQuestionDisabled"
    /\ UNCHANGED <<serverVars, legacyVars>>
    /\ QuizVisible /\ ~NextEnabled
    /\ IF currentQuestionIndex < Len(currentQuiz) - 1
         THEN /\ currentQuestionIndex' = currentQuestionIndex + 1
              /\ UNCHANGED <<quizCompleted, showResults>>
         ELSE /\ quizCompleted' = TRUE
              /\ showResults' = TRUE
              /\ UNCHANGED currentQuestionIndex
    /\ UNCHANGED <<file, numQuestions, loading, error, uploadProgress, fullQuizData,
                   currentQuiz, userAnswers, pc, res, progressInterval, scoreShown>>

\* The user clicks the Next / Finish Quiz button while it is disabled: a
\* disabled button dispatches no click, nextQuestion is not called and no
\* state is set.
nextQuestionDisabled ==
    /\ lastOp' = "nextQuestionDisabled"
    /\ UNCHANGED <<serverVars, legacyVars>>
    /\ QuizVisible /\ ~NextEnabled
    /\ UNCHANGED <<file, numQuestions, loading, error, uploadProgress, fullQuizData,
                   currentQuiz, currentQuestionIndex, userAnswers, quizCompleted,
                   showResults, pc, res, progressInterval, scoreShown>>

\* The user clicks the Previous button while it is disabled: prevQuestion is
\* not called and no state is set.
prevQuestionDisabled ==
    /\ lastOp' = "prevQuestionDisabled"
    /\ UNCHANGED <<serverVars, legacyVars>>
    /\ QuizVisible /\ ~PrevEnabled
    /\ UNCHANGED <<file, numQuestions, loading, error, uploadProgress, fullQuizData,
                   currentQuiz, currentQuestionIndex, userAnswers, quizCompleted,
                   showResults, pc, res, progressInterval, scoreShown>>

\* The results section is rendered: {calculateScore()}/{currentQuiz.length}
renderResults ==
    /\ lastOp' = "renderResults"
    /\ UNCHANGED <<serverVars, legacyVars>>
    /\ ResultsVisible
    /\ scoreShown' = <<calculateScore(currentQuiz, userAnswers), Len(currentQuiz)>>
    /\ UNCHANGED <<file, numQuestions, loading, error, uploadProgress, fullQuizData,
                   currentQuiz, currentQuestionIndex, userAnswers, quizCompleted,
                   showResults, pc, res, progressInterval>>

\* The retake button wired to a fresh draw from the pool.
retakeQuizReshuffled ==
    /\ lastOp' = "retakeQuiz"
    /\ UNCHANGED <<serverVars, legacyVars>>
    /\ ResultsVisible
    /\ startQuiz(fullQuizData)
    /\ scoreShown' = <<>>
    /\ UNCHANGED <<file, numQuestions, loading, error, uploadProgress, fullQuizData,
                   pc, res, progressInterval>>

\* The user clicks "Retake this quiz (same questions)".
retakeQuiz ==
    /\ lastOp' = "retakeQuiz"
    /\ UNCHANGED <<serverVars, legacyVars>>
    /\ ResultsVisible
    /\ currentQuestionIndex' = 0
    /\ userAnswers' = <<>>
    /\ quizCompleted' = FALSE
    /\ showResults' = FALSE
    /\ scoreShown' = <<>>
    /\ UNCHANGED <<file, numQuestions, loading, error, uploadProgress, fullQuizData,
                   currentQuiz, pc, res, progressInterval>>

\* startQuiz sorting the pool itself instead of a copy of it:
\* questions.sort(...) on fullQuizData.
startNewQuizInPlace ==
    /\ lastOp' = "startNewQuiz"
    /\ UNCHANGED <<serverVars, legacyVars>>
    /\ ResultsVisible
    /\ \E shuffled \in Shuffles(fullQuizData) :
          /\ fullQuizData' = shuffled
          /\ currentQuiz' = Slice(shuffled, numQuestions)
    /\ currentQuestionIndex' = 0
    /\ userAnswers' = <<>>
    /\ quizCompleted' = FALSE
    /\ showResults' = FALSE
    /\ scoreShown' = <<>>
    /\ UNCHANGED <<file, numQuestions, loading, error, uploadProgress,
                   pc, res, progressInterval>>

\* The user clicks "Start new quiz (different random questions)".
startNewQuiz ==
    /\ lastOp' = "startNewQuiz"
    /\ UNCHANGED <<serverVars, legacyVars>>
    /\ ResultsVisible
    /\ startQuiz(fullQuizData)
    /\ scoreShown' = <<>>
    /\ UNCHANGED <<file, numQuestions, loading, error, uploadProgress, fullQuizData,
                   pc, res, progressInterval>>

\* resetAll without its setFile(null).
resetAllKeepsFile ==
    /\ lastOp' = "resetAll"
    /\ UNCHANGED <<serverVars, legacyVars>>
    /\ ResultsVisible
    /\ fullQuizData' = <<>>
    /\ currentQuiz' = <<>>
    /\ currentQuestionIndex' = 0
    /\ userAnswers' = <<>>
    /\ quizCompleted' = FALSE
    /\ showResults' = FALSE
    /\ error' = ""
    /\ loading' = FALSE
    /\ uploadProgress' = 0
    /\ numQuestions' = 5
    /\ scoreShown' = <<>>
    /\ UNCHANGED <<file, pc, res, progressInterval>>

\* The user clicks "Upload new document". (The setTimeout of resetAll only
\* empties the file input element, which is no state of the component.)
resetAll ==
    /\ lastOp' = "resetAll"
    /\ UNCHANGED <<serverVars, legacyVars>>
    /\ ResultsVisible
    /\ file' = NoFile
    /\ fullQuizData' = <<>>
    /\ currentQuiz' = <<>>
    /\ currentQuestionIndex' = 0
    /\ userAnswers' = <<>>
    /\ quizCompleted' = FALSE
    /\ showResults' = FALSE
    /\ error' = ""
    /\ loading' = FALSE
    /\ uploadProgress' = 0
    /\ numQuestions' = 5
    /\ scoreShown' = <<>>
    /\ UNCHANGED <<pc, res, progressInterval>>

Next ==
    \/ handleFileChange
    \/ setNumQuestions
    \/ handleSubmit
    \/ progressTick
    \/ fetchResolves
    \/ jsonResolves
    \/ selectAnswer
    \/ nextQuestion
    \/ prevQuestion
    \/ nextQuestionDisabled
    \/ prevQuestionDisabled
    \/ renderResults
    \/ retakeQuiz
    \/ startNewQuiz
    \/ resetAll

Spec == Init /\ [][Next]_vars

\* The upload section with a connection that may fail
SubmitNext ==
    \/ handleFileChange
    \/ setNumQuestions
    \/ handleSubmit
    \/ progressTick
    \/ fetchResolves
    \/ fetchRejects
    \/ jsonResolves

SubmitSpec == Init /\ [][SubmitNext]_vars

\* ------------------------------------------------------------------------
\* The API route: strings
\* ------------------------------------------------------------------------

UpperCase ==
    <<"A", "B", "C", "D", "E", "F", "G", "H", "I", "J", "K", "L", "M",
      "N", "O", "P", "Q", "R", "S", "T", "U", "V", "W", "X", "Y", "Z">>

LowerCase ==
    <<"a", "b", "c", "d", "e", "f", "g", "h", "i", "j", "k", "l", "m",
      "n", "o", "p", "q", "r", "s", "t", "u", "v", "w", "x", "y", "z">>

\* The letter of alphabet "to" at the place c has in alphabet "from"; c
\* itself if it is no letter of "from".
MapCase(c, from, to) ==
    IF \E k \in 1..Len(from) : from[k] = c
      THEN to[CHOOSE k \in 1..Len(from) : from[k] = c]
      ELSE c

\* String.prototype.toLowerCase
toLowerCase(s) == [i \in 1..Len(s) |-> MapCase(s[i], UpperCase, LowerCase)]

\* String.prototype.toUpperCase
toUpperCase(s) == [i \in 1..Len(s) |-> MapCase(s[i], LowerCase, UpperCase)]

\* String.prototype.includes: p occurs in s, letter case included.
Includes(s, p) ==
    \E i \in 1..(Len(s) - Len(p) + 1) : SubSeq(s, i, i + Len(p) - 1) = p

\* Array.prototype.includes
ArrayIncludes(array, x) == \E i \in 1..Len(array) : array[i] = x

RECURSIVE JoinFrom(_, _, _)
JoinFrom(array, i, separator) ==
    IF i > Len(array) THEN <<>>
    ELSE IF i = Len(array) THEN array[i]
    ELSE array[i] \o separator \o JoinFrom(array, i + 1, separator)

\* Array.prototype.join
Join(array, separator) == JoinFrom(array, 1, separator)

\* The decimal digits of a natural number
RECURSIVE NumberChars(_)
NumberChars(n) ==
    IF n < 10 THEN <<DigitOf(n)>>
    ELSE NumberChars(n \div 10) \o <<DigitOf(n % 10)>>

\* ------------------------------------------------------------------------
\* The API route: file validation and the error answers
\* ------------------------------------------------------------------------

ALLOWED_EXTENSIONS ==
    << <<"p", "d", "f">>, <<"d", "o", "c", "x">>, <<"t", "x", "t">>,
       <<"r", "t", "f">>, <<"j", "p", "g">>, <<"j", "p", "e", "g">>,
       <<"p", "n", "g">> >>

MAX_FILE_SIZE == 10 * 1024 * 1024

\* fileName.split('.').pop()?.toLowerCase() || "": what follows the last
\* dot, the whole name if it has no dot.
parseFileExt(fileName) ==
    LET dots == {i \in 1..Len(fileName) : fileName[i] = "."}
        last == IF dots = {} THEN 0 ELSE Max(dots)
    IN  toLowerCase(SubSeq(fileName, last + 1, Len(fileName)))

\* (size / 1024 / 1024).toFixed(1)
SizeInMB(size) ==
    LET tenths == (2 * 10 * size + 1024 * 1024) \div (2 * 1024 * 1024)
    IN  NumberChars(tenths \div 10) \o <<".", DigitOf(tenths % 10)>>

FileNameRequired ==
    <<"F", "i", "l", "e", " ", "n", "a", "m", "e", " ", "i", "s", " ", "r",
      "e", "q", "u", "i", "r", "e", "d">>

UnsupportedFileType(ext) ==
    <<"U", "n", "s", "u", "p", "p", "o", "r", "t", "e", "d", " ", "f", "i",
      "l", "e", " ", "t", "y", "p", "e", ":", " ">>
      \o ext \o
    <<".", " ", "A", "l", "l", "o", "w", "e", "d", ":", " ">>
      \o Join(ALLOWED_EXTENSIONS, <<",", " ">>)

FileTooLarge(size) ==
    <<"F", "i", "l", "e", " ", "t", "o", "o", " ", "l", "a", "r", "g", "e",
      ":", " ">>
      \o SizeInMB(size) \o
    <<"M", "B", ".", " ", "M", "a", "x", ":", " ", "1", "0", "M", "B">>

\* validateFile returns
NoError == <<>>

\* validateFile(file): NoError, or the message of the Error it throws.
validateFile(uploaded) ==
    IF uploaded.originalFilename = <<>> THEN FileNameRequired
    ELSE LET ext == parseFileExt(uploaded.originalFilename)
         IN  IF ~ArrayIncludes(ALLOWED_EXTENSIONS, ext)
               THEN UnsupportedFileType(ext)
             ELSE IF uploaded.size # 0 /\ uploaded.size > MAX_FILE_SIZE
               THEN FileTooLarge(uploaded.size)
             ELSE NoError

InternalServerError ==
    <<"I", "n", "t", "e", "r", "n", "a", "l", " ", "s", "e", "r", "v", "e",
      "r", " ", "e", "r", "r", "o", "r", ".", " ", "P", "l", "e", "a", "s",
      "e", " ", "t", "r", "y", " ", "a", "g", "a", "i", "n", ".">>

\* A catch block that sends the message of the caught Error as details
\* whatever NODE_ENV is
errorResponseWithDetails(message) ==
    IF \/ Includes(message, <<"A", "u", "t", "h", "e", "n", "t", "i", "c", "a", "t", "i", "o", "n">>)
       \/ Includes(message, <<"U", "n", "a", "u", "t", "h", "o", "r", "i", "z", "e", "d">>)
      THEN [status |-> 401, code |-> "UNAUTHORIZED", error |-> message,
            quiz |-> <<>>, details |-> <<>>]
    ELSE IF \/ Includes(message, <<"F", "i", "l", "e">>)
            \/ Includes(message, <<"u", "p", "l", "o", "a", "d">>)
      THEN [status |-> 400, code |-> "FILE_ERROR", error |-> message,
            quiz |-> <<>>, details |-> <<>>]
    ELSE IF \/ Includes(message, <<"O", "p", "e", "n", "A", "I">>)
            \/ Includes(message, <<"q", "u", "o", "t", "a">>)
      THEN [status |-> 503, code |-> "AI_SERVICE_ERROR", error |-> message,
            quiz |-> <<>>, details |-> <<>>]
    ELSE [status |-> 500, code |-> "INTERNAL_ERROR", error |-> InternalServerError,
          quiz |-> <<>>,
          details |-> message]

\* The catch block of the handler: the answer is chosen by the words the
\* message of the caught Error contains.
errorResponse(message) ==
    IF \/ Includes(message, <<"A", "u", "t", "h", "e", "n", "t", "i", "c", "a", "t", "i", "o", "n">>)
       \/ Includes(message, <<"U", "n", "a", "u", "t", "h", "o", "r", "i", "z", "e", "d">>)
      THEN [status |-> 401, code |-> "UNAUTHORIZED", error |-> message,
            quiz |-> <<>>, details |-> <<>>]
    ELSE IF \/ Includes(message, <<"F", "i", "l", "e">>)
            \/ Includes(message, <<"u", "p", "l", "o", "a", "d">>)
      THEN [status |-> 400, code |-> "FILE_ERROR", error |-> message,
            quiz |-> <<>>, details |-> <<>>]
    ELSE IF \/ Includes(message, <<"O", "p", "e", "n", "A", "I">>)
            \/ Includes(message, <<"q", "u", "o", "t", "a">>)
      THEN [status |-> 503, code |-> "AI_SERVICE_ERROR", error |-> message,
            quiz |-> <<>>, details |-> <<>>]
    ELSE [status |-> 500, code |-> "INTERNAL_ERROR", error |-> InternalServerError,
          quiz |-> <<>>,
          details |-> IF env.NODE_ENV = "development" THEN message ELSE <<>>]

\* ------------------------------------------------------------------------
\* The API route: extraction, generation and the handler
\* ------------------------------------------------------------------------

\* What a step of the handler rewrites.
run ==
    [sPc |-> sPc, response |-> response, validation |-> validation,
     fileRead |-> fileRead, adapter |-> adapter,
     generationCalls |-> generationCalls, failure |-> failure,
     worker |-> worker, pending |-> pending, tempFile |-> tempFile,
     extractedText |-> extractedText, calls |-> calls, service |-> service,
     prompt |-> prompt]

Becomes(h) ==
    /\ sPc' = h.sPc
    /\ response' = h.response
    /\ validation' = h.validation
    /\ fileRead' = h.fileRead
    /\ adapter' = h.adapter
    /\ generationCalls' = h.generationCalls
    /\ failure' = h.failure
    /\ worker' = h.worker
    /\ pending' = h.pending
    /\ tempFile' = h.tempFile
    /\ extractedText' = h.extractedText
    /\ calls' = h.calls
    /\ service' = h.service
    /\ prompt' = h.prompt

\* An Error with this message, thrown in this stage, reaches the catch block
\* of the handler.
Caught(h, stage, message) ==
    [h EXCEPT !.sPc = "done", !.response = errorResponse(message),
              !.failure = stage]

\* return res.status(status).json({ error, code })
Returned(h, stage, status, code, message) ==
    [h EXCEPT !.sPc = "done", !.failure = stage,
              !.response = [status |-> status, code |-> code, error |-> message,
                            quiz |-> <<>>, details |-> <<>>]]

ApiKeyNotConfigured ==
    <<"O", "p", "e", "n", "A", "I", " ", "A", "P", "I", " ", "k", "e", "y",
      " ", "n", "o", "t", " ", "c", "o", "n", "f", "i", "g", "u", "r", "e",
      "d">>

NoTextContent ==
    <<"N", "o", " ", "t", "e", "x", "t", " ", "c", "o", "n", "t", "e", "n",
      "t", " ", "f", "o", "u", "n", "d", " ", "t", "o", " ", "g", "e", "n",
      "e", "r", "a", "t", "e", " ", "q", "u", "i", "z", " ", "f", "r", "o",
      "m">>

ContentTooShort ==
    <<"C", "o", "n", "t", "e", "n", "t", " ", "t", "o", "o", " ", "s", "h",
      "o", "r", "t", " ", "t", "o", " ", "g", "e", "n", "e", "r", "a", "t",
      "e", " ", "m", "e", "a", "n", "i", "n", "g", "f", "u", "l", " ", "q",
      "u", "i", "z", " ", "q", "u", "e", "s", "t", "i", "o", "n", "s", " ",
      "(", "m", "i", "n", "i", "m", "u", "m", " ", "1", "0", "0", " ", "c",
      "h", "a", "r", "a", "c", "t", "e", "r", "s", ")">>

OpenAIApiError(status, message) ==
    <<"O", "p", "e", "n", "A", "I", " ", "A", "P", "I", " ", "e", "r", "r",
      "o", "r", ":", " ">>
      \o NumberChars(status) \o <<" ", "-", " ">> \o
    (IF message = <<>>
       THEN <<"U", "n", "k", "n", "o", "w", "n", " ", "e", "r", "r", "o", "r">>
       ELSE message)

OpenAIEmptyResponse ==
    <<"O", "p", "e", "n", "A", "I", " ", "r", "e", "t", "u", "r", "n", "e",
      "d", " ", "e", "m", "p", "t", "y", " ", "r", "e", "s", "p", "o", "n",
      "s", "e">>

OpenAIQuotaExceeded ==
    <<"O", "p", "e", "n", "A", "I", " ", "q", "u", "o", "t", "a", " ", "e",
      "x", "c", "e", "e", "d", "e", "d", ".", " ", "P", "l", "e", "a", "s",
      "e", " ", "t", "r", "y", " ", "a", "g", "a", "i", "n", " ", "l", "a",
      "t", "e", "r", ".">>

\* text.length < 100
MinContentLength == 100

\* text.slice(0, 8000)
PromptBudget == 8000

\* What the template of the prompt interpolates: ${numQuestions} (count),
\* ${text.slice(0, 8000)} and ${text.length > 8000 ? '...' : ''}. The fixed
\* words of the template are left out.
Prompt(text, count) ==
    [numQuestions |-> count,
     content      |-> Slice(text, PromptBudget),
     more         |-> IF Len(text) > PromptBudget THEN "..." ELSE ""]

\* generateQuiz without its test of text.length
generateQuizNoFloor(h, text, count) ==
    IF ~env.OPENAI_API_KEY THEN Caught(h, "generation", ApiKeyNotConfigured)
    ELSE IF Trim(text) = <<>> THEN Caught(h, "generation", NoTextContent)
    ELSE [h EXCEPT !.sPc = "fetch", !.generationCalls = @ + 1,
                   !.prompt = Prompt(text, count)]

\* generateQuiz with the whole text in its prompt
generateQuizWholeText(h, text, count) ==
    IF ~env.OPENAI_API_KEY THEN Caught(h, "generation", ApiKeyNotConfigured)
    ELSE IF Trim(text) = <<>> THEN Caught(h, "generation", NoTextContent)
    ELSE IF Len(text) < MinContentLength
      THEN Caught(h, "generation", ContentTooShort)
    ELSE [h EXCEPT !.sPc = "fetch", !.generationCalls = @ + 1,
                   !.prompt = [Prompt(text, count) EXCEPT !.content = text]]

\* generateQuiz(text, numQuestions, userId) up to its await fetch(...)
generateQuiz(h, text, count) ==
    IF ~env.OPENAI_API_KEY THEN Caught(h, "generation", ApiKeyNotConfigured)
    ELSE IF Trim(text) = <<>> THEN Caught(h, "generation", NoTextContent)
    ELSE IF Len(text) < MinContentLength
      THEN Caught(h, "generation", ContentTooShort)
    ELSE [h EXCEPT !.sPc = "fetch", !.generationCalls = @ + 1,
                   !.prompt = Prompt(text, count)]

\* The catch block of extractText
FailedToExtract(ext, message) ==
    <<"F", "a", "i", "l", "e", "d", " ", "t", "o", " ", "e", "x", "t", "r",
      "a", "c", "t", " ", "t", "e", "x", "t", " ", "f", "r", "o", "m", " ">>
      \o toUpperCase(ext) \o <<":", " ">> \o message

PdfEmpty ==
    <<"P", "D", "F", " ", "a", "p", "p", "e", "a", "r", "s", " ", "t", "o",
      " ", "b", "e", " ", "e", "m", "p", "t", "y", " ", "o", "r", " ", "c",
      "o", "n", "t", "a", "i", "n", "s", " ", "o", "n", "l", "y", " ", "i",
      "m", "a", "g", "e", "s">>

DocxEmpty ==
    <<"D", "O", "C", "X", " ", "f", "i", "l", "e", " ", "a", "p", "p", "e",
      "a", "r", "s", " ", "t", "o", " ", "b", "e", " ", "e", "m", "p", "t",
      "y">>

TextFileEmpty ==
    <<"T", "e", "x", "t", " ", "f", "i", "l", "e", " ", "a", "p", "p", "e",
      "a", "r", "s", " ", "t", "o", " ", "b", "e", " ", "e", "m", "p", "t",
      "y">>

ImageUnreadable ==
    <<"C", "o", "u", "l", "d", " ", "n", "o", "t", " ", "e", "x", "t", "r",
      "a", "c", "t", " ", "t", "e", "x", "t", " ", "f", "r", "o", "m", " ",
      "i", "m", "a", "g", "e", ".", " ", "P", "l", "e", "a", "s", "e", " ",
      "e", "n", "s", "u", "r", "e", " ", "i", "m", "a", "g", "e", " ", "c",
      "o", "n", "t", "a", "i", "n", "s", " ", "r", "e", "a", "d", "a", "b",
      "l", "e", " ", "t", "e", "x", "t", ".">>

\* The message extractText throws when this adapter yields blank text.
EmptyMessage(name) ==
    CASE name = "pdfParse" -> PdfEmpty
      [] name = "mammoth" -> DocxEmpty
      [] name = "parseTxtOrRtf" -> TextFileEmpty
      [] name = "tesseract" -> ImageUnreadable

\* The adapter extractText calls for an extension; "" for none.
AdapterFor(ext) ==
    IF ext = <<"p", "d", "f">> THEN "pdfParse"
    ELSE IF ext = <<"d", "o", "c", "x">> THEN "mammoth"
    ELSE IF ext \in {<<"t", "x", "t">>, <<"r", "t", "f">>} THEN "parseTxtOrRtf"
    ELSE IF ext \in {<<"j", "p", "g">>, <<"j", "p", "e", "g">>, <<"p", "n", "g">>}
      THEN "tesseract"
    ELSE ""

\* The value of a form field read as a count: that of a single digit, and 0
\* for whatever else.
FieldCount(field) ==
    IF Len(field) = 1 /\ \E d \in 0..9 : DigitOf(d) = field[1]
      THEN CHOOSE d \in 0..9 : DigitOf(d) = field[1]
      ELSE 0

\* A handler that asks for as many questions as the form field says
extractTextReturnsFieldCount(h, text) ==
    generateQuiz([h EXCEPT !.extractedText = <<text>>,
                           !.calls = @ \cup {"generateQuiz"}],
                 text, FieldCount(request.fields.numQuestions))

\* extractText returns text: the handler calls generateQuiz with it and the
\* count 20; the fields of the form are not read.
extractTextReturns(h, text) ==
    generateQuiz([h EXCEPT !.extractedText = <<text>>,
                           !.calls = @ \cup {"generateQuiz"}],
                 text, 20)

\* An adapter that hands on whatever is not the empty string
ExtractedUntrimmed(h, ext, text) ==
    IF text = <<>>
      THEN Caught(h, "extraction", FailedToExtract(ext, EmptyMessage(h.adapter)))
      ELSE extractTextReturns(h, text)

\* pdf-parse, mammoth or parseTxtOrRtf has yielded text: the rest of
\* extractText.
Extracted(h, ext, text) ==
    IF Trim(text) = <<>>
      THEN Caught(h, "extraction", FailedToExtract(ext, EmptyMessage(h.adapter)))
      ELSE extractTextReturns(h, text)

\* An extractText that goes by the declared media type of the upload
extractTextByMediaType(h, uploaded) ==
    LET invalid == validateFile(uploaded)
        ext     == parseFileExt(uploaded.originalFilename)
        byType  == IF uploaded.mimetype = "application/pdf" THEN "pdfParse"
                   ELSE "parseTxtOrRtf"
    IN  IF invalid # NoError
          THEN Caught([h EXCEPT !.validation = "failed"], "validation", invalid)
          ELSE LET read == [h EXCEPT !.validation = "passed", !.fileRead = TRUE,
                                     !.adapter = byType]
               IN  IF byType = "parseTxtOrRtf"
                     THEN Extracted(read, ext, uploaded.content)
                   ELSE [read EXCEPT !.sPc = "adapter"]

\* extractText(file) up to its first await; for txt and rtf, which need
\* none, to its end.
extractText(h, uploaded) ==
    LET invalid == validateFile(uploaded)
        ext     == parseFileExt(uploaded.originalFilename)
    IN  IF invalid # NoError
          THEN Caught([h EXCEPT !.validation = "failed"], "validation", invalid)
          ELSE LET read == [h EXCEPT !.validation = "passed", !.fileRead = TRUE,
                                     !.adapter = AdapterFor(ext)]
               IN  IF AdapterFor(ext) = "parseTxtOrRtf"
                     THEN Extracted(read, ext, uploaded.content)
                   ELSE IF AdapterFor(ext) = "tesseract"
                     THEN [read EXCEPT !.sPc = "createWorker"]
                   ELSE [read EXCEPT !.sPc = "adapter"]

\* The names under which files are uploaded; <<>> stands for an upload
\* without a file name.
FileNames ==
    {<<>>,
     <<"n", "o", "t", "e", "s", ".", "t", "x", "t">>,
     <<"a", ".", "r", "t", "f">>,
     <<"B", "o", "o", "k", ".", "P", "D", "F">>,
     <<"a", ".", "b", ".", "d", "o", "c", "x">>,
     <<"x", ".", "p", "n", "g">>,
     <<"x", ".", "j", "p", "e", "g">>,
     <<"x", ".", "j", "p", "g">>,
     <<"s", "e", "t", "u", "p", ".", "e", "x", "e">>,
     <<"n", "o", "t", "e", "s", ".">>,
     <<"n", "o", "t", "e", "s">>,
     <<"p", "d", "f">>}

FileSizes == {1024, MAX_FILE_SIZE, MAX_FILE_SIZE + 1}

\* The text a file holds: none, blanks only, one character less than
\* generateQuiz asks for, and just enough of them.
FileContents ==
    {<<>>, <<" ", "\n">>, [i \in 1..(MinContentLength - 1) |-> "x"],
     [i \in 1..MinContentLength |-> "x"]}

\* err.message of formidable when the upload exceeds maxFileSize
MaxFileSizeExceeded ==
    <<"m", "a", "x", "F", "i", "l", "e", "S", "i", "z", "e", " ", "e", "x",
      "c", "e", "e", "d", "e", "d">>

\* err.message of formidable when the client aborts the upload
RequestAborted ==
    <<"R", "e", "q", "u", "e", "s", "t", " ", "a", "b", "o", "r", "t", "e",
      "d">>

\* An authenticated POST with a file. formidable is created with
\* maxFileSize: MAX_FILE_SIZE, so a larger upload fails in parseForm.
\* The media types a browser declares for the file, whatever its name.
MediaTypes == {"application/pdf", "text/plain"}

Uploads ==
    {[method |-> "POST", userId |-> "user_1", hasFile |-> TRUE,
      originalFilename |-> name, mimetype |-> type, size |-> size,
      content |-> content,
      formError |-> IF size > MAX_FILE_SIZE THEN MaxFileSizeExceeded ELSE <<>>,
      fields |-> [numQuestions |-> <<>>]] :
        name \in FileNames, type \in MediaTypes, size \in FileSizes,
        content \in FileContents}

\* What the optional form field numQuestions may hold: a count, zero, a
\* negative number, no number.
FieldValues == {<<"7">>, <<"0">>, <<"-", "3">>, <<"a", "b", "c">>}

\* Uploads of a text file with a numQuestions field in the form
UploadsWithField ==
    {[u EXCEPT !.fields.numQuestions = v] :
        u \in {w \in Uploads :
                 /\ w.originalFilename = <<"n", "o", "t", "e", "s", ".", "t", "x", "t">>
                 /\ w.mimetype = "text/plain"
                 /\ w.size < MAX_FILE_SIZE
                 /\ Len(w.content) = MinContentLength},
        v \in FieldValues}

\* A text of n characters, no two neighbours alike.
LongText(n) == [i \in 1..n |-> <<"a", "b", "c">>[(i % 3) + 1]]

\* Uploads of a PDF whose text is one character short of what the prompt
\* takes, just that much, and one character more.
LongUploads ==
    {[u EXCEPT !.content = LongText(n)] :
        u \in {w \in Uploads :
                 /\ w.originalFilename = <<"B", "o", "o", "k", ".", "P", "D", "F">>
                 /\ w.mimetype = "application/pdf"
                 /\ w.size = MAX_FILE_SIZE
                 /\ w.content = <<>>},
        n \in {PromptBudget - 1, PromptBudget, PromptBudget + 1}}

Requests ==
    Uploads \cup UploadsWithField \cup LongUploads \cup
    {[NoRequest EXCEPT !.method = "GET", !.userId = "user_1"],
     [NoRequest EXCEPT !.method = "GET"],
     [NoRequest EXCEPT !.method = "POST"],
     [NoRequest EXCEPT !.method = "POST", !.userId = "user_1"],
     [NoRequest EXCEPT !.method = "POST", !.userId = "user_1",
                       !.formError = RequestAborted]}
      \cup {[u EXCEPT !.userId = ""] :
               u \in {v \in Uploads : v.originalFilename = <<"x", ".", "p", "n", "g">>}}

Envs ==
    {[OPENAI_API_KEY |-> key, NODE_ENV |-> mode] :
        key \in BOOLEAN, mode \in {"production", "development"}}

\* What the pdf-parse, mammoth and tesseract.js calls throw when they fail.
AdapterError(name) ==
    CASE name = "pdfParse" ->
           <<"I", "n", "v", "a", "l", "i", "d", " ", "P", "D", "F", " ", "s",
             "t", "r", "u", "c", "t", "u", "r", "e">>
      [] name = "mammoth" ->
           <<"C", "a", "n", "'", "t", " ", "f", "i", "n", "d", " ", "e", "n",
             "d", " ", "o", "f", " ", "c", "e", "n", "t", "r", "a", "l", " ",
             "d", "i", "r", "e", "c", "t", "o", "r", "y", " ", ":", " ", "i",
             "s", " ", "t", "h", "i", "s", " ", "a", " ", "z", "i", "p", " ",
             "f", "i", "l", "e", " ", "?">>
      [] name = "tesseract" ->
           <<"E", "r", "r", "o", "r", " ", "a", "t", "t", "e", "m", "p", "t",
             "i", "n", "g", " ", "t", "o", " ", "r", "e", "a", "d", " ", "i",
             "m", "a", "g", "e", ".">>

\* How the fetch to the completion service ends: a 200 with the content of
\* the first choice, another status with the error message of its body (<<>>
\* if the body is no JSON), a 200 whose body has no choices (text is the
\* message of the TypeError of data.choices[0]), or a rejection.
ServiceOutcomes ==
    {[kind |-> "ok", status |-> 200, text |-> content] :
        content \in {QuizText(<<>>, <<"good">>), <<"\n">>, <<>>}}
      \cup
    {[kind |-> "status", status |-> status, text |-> message] :
        status \in {429, 500},
        message \in {<<>>,
                     <<"Y", "o", "u", " ", "e", "x", "c", "e", "e", "d", "e",
                       "d", " ", "y", "o", "u", "r", " ", "c", "u", "r", "r",
                       "e", "n", "t", " ", "q", "u", "o", "t", "a">>}}
      \cup
    {[kind |-> "status", status |-> 401,
      text |-> <<"I", "n", "v", "a", "l", "i", "d", " ", "A", "u", "t", "h",
                 "e", "n", "t", "i", "c", "a", "t", "i", "o", "n">>],
     [kind |-> "malformed", status |-> 200,
      text |-> <<"C", "a", "n", "n", "o", "t", " ", "r", "e", "a", "d", " ",
                 "p", "r", "o", "p", "e", "r", "t", "i", "e", "s", " ", "o",
                 "f", " ", "u", "n", "d", "e", "f", "i", "n", "e", "d", " ",
                 "(", "r", "e", "a", "d", "i", "n", "g", " ", "'", "0", "'",
                 ")">>],
     [kind |-> "rejected", status |-> 0,
      text |-> <<"f", "e", "t", "c", "h", " ", "f", "a", "i", "l", "e", "d">>]}

MethodNotAllowed ==
    <<"M", "e", "t", "h", "o", "d", " ", "n", "o", "t", " ", "a", "l", "l",
      "o", "w", "e", "d">>

AuthenticationRequired ==
    <<"A", "u", "t", "h", "e", "n", "t", "i", "c", "a", "t", "i", "o", "n",
      " ", "r", "e", "q", "u", "i", "r", "e", "d", ".", " ", "P", "l", "e",
      "a", "s", "e", " ", "s", "i", "g", "n", " ", "i", "n", ".">>

NoFileUploaded ==
    <<"N", "o", " ", "f", "i", "l", "e", " ", "u", "p", "l", "o", "a", "d",
      "e", "d">>

\* The Error parseForm rejects with
FileUploadFailed(message) ==
    <<"F", "i", "l", "e", " ", "u", "p", "l", "o", "a", "d", " ", "f", "a",
      "i", "l", "e", "d", ":", " ">>
      \o message

\* The answer of the middleware to a request without a user
MiddlewareAuthenticationRequired ==
    <<"A", "u", "t", "h", "e", "n", "t", "i", "c", "a", "t", "i", "o", "n",
      " ", "r", "e", "q", "u", "i", "r", "e", "d">>

\* The state of the route when a request arrives
fresh ==
    [sPc |-> "handler", response |-> NoReply, validation |-> "none",
     fileRead |-> FALSE, adapter |-> "", generationCalls |-> 0, failure |-> "",
     worker |-> "none", pending |-> <<>>, tempFile |-> FALSE,
     extractedText |-> <<>>, calls |-> {"middleware"}, service |-> NoOutcome,
     prompt |-> NoPrompt]

\* The clerkMiddleware callback on a request to /api/generate-quiz. The
\* route is protected, so without a userId the middleware answers 401
\* itself; otherwise NextResponse.next() hands the request to the handler.
clerkMiddleware(requests) ==
    \E r \in requests, e \in Envs :
        /\ request' = r
        /\ env' = e
        /\ Becomes(
             IF r.userId = ""
               THEN Returned(fresh, "authentication", 401, "UNAUTHORIZED",
                             MiddlewareAuthenticationRequired)
               ELSE fresh)

\* A middleware whose route matcher does not cover the request
middlewareUnprotected ==
    /\ lastOp' = "middleware"
    /\ sPc \in {"wait", "done"}
    /\ \E r \in Requests, e \in Envs :
          /\ request' = r
          /\ env' = e
    /\ Becomes(fresh)
    /\ UNCHANGED <<clientVars, legacyVars>>

\* A request to /api/generate-quiz arrives at the server.
middleware ==
    /\ lastOp' = "middleware"
    /\ sPc \in {"wait", "done"}
    /\ clerkMiddleware(Requests)
    /\ UNCHANGED <<clientVars, legacyVars>>

\* The handler up to its await parseForm(req).
handler ==
    /\ lastOp' = "handler"
    /\ sPc = "handler"
    /\ LET called == [run EXCEPT !.calls = @ \cup {"handler"}]
       IN  Becomes(
             IF request.method # "POST"
               THEN Returned(called, "method", 405, "METHOD_NOT_ALLOWED",
                             MethodNotAllowed)
             ELSE IF request.userId = ""
               THEN Returned(called, "authentication", 401, "UNAUTHORIZED",
                             AuthenticationRequired)
             ELSE [called EXCEPT !.sPc = "parseForm",
                                 !.calls = @ \cup {"parseForm"}])
    /\ UNCHANGED <<request, env>>
    /\ UNCHANGED <<clientVars, legacyVars>>

\* parseForm settles: the handler up to the first await of extractText, or
\* of generateQuiz when extractText has none. formidable has stored an
\* accepted file in a temporary file.
parseFormSettles ==
    /\ lastOp' = "parseFormSettles"
    /\ sPc = "parseForm"
    /\ Becomes(
         IF request.formError # <<>>
           THEN Caught(run, "upload", FileUploadFailed(request.formError))
         ELSE IF ~request.hasFile
           THEN Returned(run, "missingFile", 400, "MISSING_FILE", NoFileUploaded)
         ELSE extractText([run EXCEPT !.tempFile = TRUE,
                                      !.calls = @ \cup {"extractText"}],
                          request))
    /\ UNCHANGED <<request, env>>
    /\ UNCHANGED <<clientVars, legacyVars>>

\* The pdf-parse or mammoth call settles: the rest of extractText and the
\* handler up to the await fetch of generateQuiz.
adapterSettles ==
    /\ lastOp' = "adapterSettles"
    /\ sPc = "adapter"
    /\ LET ext == parseFileExt(request.originalFilename)
       IN  \/ Becomes(Extracted(run, ext, request.content))
           \/ Becomes(Caught(run, "extraction",
                             FailedToExtract(ext, AdapterError(adapter))))
    /\ UNCHANGED <<request, env>>
    /\ UNCHANGED <<clientVars, legacyVars>>

\* await createWorker("eng") settles: with a worker, extractText goes on to
\* its await worker.recognize(buffer); a rejection is caught by the outer
\* catch of extractText.
createWorkerSettles ==
    /\ lastOp' = "createWorkerSettles"
    /\ sPc = "createWorker"
    /\ LET ext == parseFileExt(request.originalFilename)
       IN  \/ Becomes([run EXCEPT !.worker = "active", !.sPc = "recognize"])
           \/ Becomes(Caught(run, "extraction",
                             FailedToExtract(ext, AdapterError(adapter))))
    /\ UNCHANGED <<request, env>>
    /\ UNCHANGED <<clientVars, legacyVars>>

\* worker.recognize settling in a try block that has no finally: a throw
\* goes straight to the catch of extractText, a return terminates the worker
\* first.
recognizeSettlesNoFinally ==
    /\ lastOp' = "recognizeSettles"
    /\ sPc = "recognize"
    /\ LET ext == parseFileExt(request.originalFilename)
       IN  \/ Becomes(
                IF Trim(request.content) = <<>>
                  THEN Caught(run, "extraction",
                              FailedToExtract(ext, ImageUnreadable))
                  ELSE [run EXCEPT !.pending = <<"return", request.content>>,
                                   !.sPc = "terminate"])
           \/ Becomes(Caught(run, "extraction",
                             FailedToExtract(ext, AdapterError(adapter))))
    /\ UNCHANGED <<request, env>>
    /\ UNCHANGED <<clientVars, legacyVars>>

\* await worker.recognize(buffer) settles: the try block ends by a return of
\* the text or by a throw (blank text, or the rejection of recognize), and
\* its finally starts worker.terminate().
recognizeSettles ==
    /\ lastOp' = "recognizeSettles"
    /\ sPc = "recognize"
    /\ \E ended \in {IF Trim(request.content) = <<>>
                       THEN <<"throw", ImageUnreadable>>
                       ELSE <<"return", request.content>>,
                     <<"throw", AdapterError(adapter)>>} :
          Becomes([run EXCEPT !.pending = ended, !.sPc = "terminate"])
    /\ UNCHANGED <<request, env>>
    /\ UNCHANGED <<clientVars, legacyVars>>

\* await worker.terminate() settles: the finally is done, the return or the
\* throw of the try block takes effect.
terminateSettles ==
    /\ lastOp' = "terminateSettles"
    /\ sPc = "terminate"
    /\ LET ext  == parseFileExt(request.originalFilename)
           done == [run EXCEPT !.worker = "terminated", !.pending = <<>>]
       IN  Becomes(
             IF pending[1] = "throw"
               THEN Caught(done, "extraction", FailedToExtract(ext, pending[2]))
               ELSE extractTextReturns(done, pending[2]))
    /\ UNCHANGED <<request, env>>
    /\ UNCHANGED <<clientVars, legacyVars>>

\* A fetchSettles that calls the service once more after a failure
fetchSettlesRetrying ==
    /\ lastOp' = "fetchSettles"
    /\ sPc = "fetch"
    /\ \E outcome \in ServiceOutcomes :
          Becomes(
            IF outcome.kind = "ok" /\ Trim(outcome.text) # <<>>
              THEN [run EXCEPT !.sPc = "done", !.service = outcome,
                               !.tempFile = FALSE,
                               !.response =
                                 [status |-> 200, code |-> "", error |-> <<>>,
                                  quiz |-> Trim(outcome.text), details |-> <<>>]]
              ELSE [run EXCEPT !.service = outcome,
                               !.generationCalls = @ + 1])
    /\ UNCHANGED <<request, env>>
    /\ UNCHANGED <<clientVars, legacyVars>>

\* The fetch of generateQuiz settles: the rest of generateQuiz (its catch
\* rewords a message that mentions the quota) and of the handler, which
\* after a success unlinks the temporary file and answers 200.
fetchSettles ==
    /\ lastOp' = "fetchSettles"
    /\ sPc = "fetch"
    /\ \E outcome \in ServiceOutcomes :
          LET thrown ==
                IF outcome.kind \in {"rejected", "malformed"} THEN outcome.text
                ELSE IF outcome.kind = "status"
                  THEN OpenAIApiError(outcome.status, outcome.text)
                ELSE IF Trim(outcome.text) = <<>> THEN OpenAIEmptyResponse
                ELSE NoError
              rethrown ==
                IF Includes(thrown, <<"q", "u", "o", "t", "a">>)
                  THEN OpenAIQuotaExceeded
                  ELSE thrown
              asked == [run EXCEPT !.service = outcome]
          IN  Becomes(
                IF thrown # NoError
                  THEN Caught(asked, "generation", rethrown)
                  ELSE [asked EXCEPT !.sPc = "done",
                                     !.tempFile = FALSE,
                                     !.response =
                                       [status |-> 200, code |-> "", error |-> <<>>,
                                        quiz |-> Trim(outcome.text),
                                        details |-> <<>>]])
    /\ UNCHANGED <<request, env>>
    /\ UNCHANGED <<clientVars, legacyVars>>

ServerNext ==
    \/ middleware
    \/ handler
    \/ parseFormSettles
    \/ adapterSettles
    \/ createWorkerSettles
    \/ recognizeSettles
    \/ terminateSettles
    \/ fetchSettles

\* The API route serving one request after another
ServerSpec == Init /\ [][ServerNext]_vars

\* ------------------------------------------------------------------------
\* The page and the API route together
\* ------------------------------------------------------------------------

\* The requests the fetch of handleSubmit sends: a POST of a form with the
\* file, with or without a signed-in user. The files are a text, a PDF and
\* an image of a size within the limit, with too little or enough text.
FetchRequests ==
    {r \in Requests :
        /\ r.method = "POST"
        /\ r.hasFile
        /\ r.size < MAX_FILE_SIZE
        /\ r.originalFilename \in
              {<<"n", "o", "t", "e", "s", ".", "t", "x", "t">>,
               <<"B", "o", "o", "k", ".", "P", "D", "F">>,
               <<"x", ".", "p", "n", "g">>}
        /\ Len(r.content) >= MinContentLength - 1}

\* The request of handleSubmit's fetch arrives at the server.
fetchArrives ==
    /\ lastOp' = "fetchArrives"
    /\ pc = "fetch"
    /\ sPc = "wait"
    /\ clerkMiddleware(FetchRequests)
    /\ UNCHANGED <<clientVars, legacyVars>>

\* A page that takes every answer of the server for a success
responseArrivesAlwaysOk ==
    /\ lastOp' = "responseArrives"
    /\ pc = "fetch"
    /\ sPc = "done"
    /\ res' = [ok |-> TRUE, quiz |-> response.quiz, error |-> response.error]
    /\ progressInterval' = progressInterval - 1
    /\ uploadProgress' = 100
    /\ pc' = "json"
    /\ sPc' = "wait"
    /\ UNCHANGED <<file, numQuestions, loading, error, fullQuizData, currentQuiz,
                   currentQuestionIndex, userAnswers, quizCompleted, showResults,
                   scoreShown>>
    /\ UNCHANGED <<request, env, response, validation, fileRead, adapter,
                   generationCalls, failure, worker, pending, tempFile,
                   extractedText, calls, service, prompt>>
    /\ UNCHANGED legacyVars

\* The answer of the server arrives at the page: the fetch of handleSubmit
\* resolves with it, res.ok being true for a status of 200 to 299, and
\* handleSubmit runs up to its await res.json().
responseArrives ==
    /\ lastOp' = "responseArrives"
    /\ pc = "fetch"
    /\ sPc = "done"
    /\ res' = [ok    |-> response.status \in 200..299,
               quiz  |-> response.quiz,
               error |-> response.error]
    /\ progressInterval' = progressInterval - 1
    /\ uploadProgress' = 100
    /\ pc' = "json"
    /\ sPc' = "wait"
    /\ UNCHANGED <<file, numQuestions, loading, error, fullQuizData, currentQuiz,
                   currentQuestionIndex, userAnswers, quizCompleted, showResults,
                   scoreShown>>
    /\ UNCHANGED <<request, env, response, validation, fileRead, adapter,
                   generationCalls, failure, worker, pending, tempFile,
                   extractedText, calls, service, prompt>>
    /\ UNCHANGED legacyVars

PipelineNext ==
    \/ handleFileChange
    \/ setNumQuestions
    \/ handleSubmit
    \/ progressTick
    \/ fetchArrives
    \/ handler
    \/ parseFormSettles
    \/ adapterSettles
    \/ createWorkerSettles
    \/ recognizeSettles
    \/ terminateSettles
    \/ fetchSettles
    \/ responseArrives
    \/ jsonResolves

\* A submit of the page served by the API route, up to the start of the quiz
PipelineSpec == Init /\ [][PipelineNext]_vars

\* ------------------------------------------------------------------------
\* The earlier revisions of the App component (src/quiz_app.py.v1)
\* ------------------------------------------------------------------------

\* if (file.size > 1024 * 1024)
LargeFileSize == 1024 * 1024

\* if (selectedFile.size > 5 * 1024 * 1024)
SelectableFileSize == 5 * 1024 * 1024

FileTooLargeToSelect ==
    "File too large! Please choose a smaller file (max 5MB). Mobile photos are often very large - try compressing the image first."

ProcessingLargeFile ==
    "Processing large file... This may take a moment, especially for high-resolution mobile photos. Please wait..."

\* The sizes of the files the user picks: just not large, large, too large
\* to be selected.
SelectedFileSizes == {LargeFileSize, LargeFileSize + 1, SelectableFileSize + 1}

\* handleFileChange of the revision with the file size check: a file above
\* 5 MB is refused with a message, any other is selected.
handleFileChangeSized ==
    /\ lastOp' = "handleFileChangeSized"
    /\ UNCHANGED serverVars
    /\ UploadVisible /\ ~loading
    /\ \E selectedFile \in Files, size \in SelectedFileSizes :
          IF size > SelectableFileSize
            THEN /\ error' = FileTooLargeToSelect
                 /\ UNCHANGED <<file, fileSize, currentQuestionIndex, userAnswers,
                                quizCompleted, showResults>>
            ELSE /\ file' = selectedFile
                 /\ fileSize' = size
                 /\ error' = ""
                 /\ ClearProgress
    /\ UNCHANGED <<numQuestions, loading, uploadProgress, fullQuizData,
                   currentQuiz, pc, res, progressInterval, scoreShown>>
    /\ UNCHANGED <<noticeTimers, quizStatus, quizQuestions, activeQuestion, score,
                   advanceTimers>>

\* handleSubmit of that revision up to its await fetch: for a file above
\* 1 MiB it shows a notice in the error field and sets a timer that clears
\* the field after two seconds.
handleSubmitWithNotice ==
    /\ lastOp' = "handleSubmitWithNotice"
    /\ UNCHANGED serverVars
    /\ UploadVisible /\ file # NoFile /\ ~loading /\ pc = "idle"
    /\ noticeTimers < MaxTimers
    /\ loading' = TRUE
    /\ uploadProgress' = 0
    /\ ClearProgress
    /\ IF fileSize > LargeFileSize
         THEN /\ error' = ProcessingLargeFile
              /\ noticeTimers' = noticeTimers + 1
         ELSE /\ error' = ""
              /\ UNCHANGED noticeTimers
    /\ progressInterval' = progressInterval + 1
    /\ pc' = "fetch"
    /\ UNCHANGED <<file, numQuestions, fullQuizData, currentQuiz, res, scoreShown>>
    /\ UNCHANGED <<fileSize, quizStatus, quizQuestions, activeQuestion, score,
                   advanceTimers>>

\* The callback of setTimeout(() => setError(""), 2000).
noticeTimeout ==
    /\ lastOp' = "noticeTimeout"
    /\ UNCHANGED serverVars
    /\ noticeTimers > 0
    /\ noticeTimers' = noticeTimers - 1
    /\ error' = ""
    /\ UNCHANGED <<file, numQuestions, loading, uploadProgress, fullQuizData,
                   currentQuiz, currentQuestionIndex, userAnswers, quizCompleted,
                   showResults, pc, res, progressInterval, scoreShown>>
    /\ UNCHANGED <<fileSize, quizStatus, quizQuestions, activeQuestion, score,
                   advanceTimers>>

\* The upload section of the revision with the large-file notice; after its
\* await fetch handleSubmit is the one of the present component.
NoticeNext ==
    \/ handleFileChangeSized
    \/ handleSubmitWithNotice
    \/ noticeTimeout
    \/ progressTick
    \/ fetchResolves
    \/ fetchRejects
    \/ jsonResolves

NoticeSpec == Init /\ [][NoticeNext]_vars

\* What parseAIQuizText returns for a quiz of n questions, with the
\* userAnswer placeholders handleStartQuiz adds.
ParsedQuiz(n) == [i \in 1..n |-> [answer |-> KeyOf(i), userAnswer |-> ""]]

\* handleFileChange of the first revision: the file input holds a file or
\* none.
handleFileChangeFirst ==
    /\ lastOp' = "handleFileChangeFirst"
    /\ quizStatus = "welcome"
    /\ \E f \in Files \cup {NoFile} : file' = f
    /\ UNCHANGED <<numQuestions, loading, error, uploadProgress, fullQuizData,
                   currentQuiz, currentQuestionIndex, userAnswers, quizCompleted,
                   showResults, pc, res, progressInterval, scoreShown>>
    /\ UNCHANGED <<serverVars, legacyVars>>

\* handleStartQuiz up to its await fetch.
handleStartQuiz ==
    /\ lastOp' = "handleStartQuiz"
    /\ quizStatus = "welcome"
    /\ file # NoFile
    /\ quizStatus' = "loading"
    /\ UNCHANGED <<fileSize, noticeTimers, quizQuestions, activeQuestion, score,
                   advanceTimers>>
    /\ UNCHANGED <<clientVars, serverVars>>

\* The fetch and res.json() of handleStartQuiz settle: the quiz is stored and
\* shown from its first question, or the failure is alerted and the welcome
\* screen returns.
startQuizSettles ==
    /\ lastOp' = "startQuizSettles"
    /\ quizStatus = "loading"
    /\ \/ \E n \in 0..MaxBlocks :
             /\ quizQuestions' = ParsedQuiz(n)
             /\ activeQuestion' = 0
             /\ quizStatus' = "quiz"
       \/ /\ quizStatus' = "welcome"
          /\ UNCHANGED <<quizQuestions, activeQuestion>>
    /\ UNCHANGED <<fileSize, noticeTimers, score, advanceTimers>>
    /\ UNCHANGED <<clientVars, serverVars>>

\* The quiz screen: status === "quiz" && quizQuestions.length > 0, showing
\* q = quizQuestions[activeQuestion]; with no such q the render throws.
QuizScreen ==
    /\ quizStatus = "quiz"
    /\ Len(quizQuestions) > 0
    /\ activeQuestion + 1 \in 1..Len(quizQuestions)

\* The score handleSelectOption computes from these questions.
ScoreOf(questions) ==
    Cardinality({i \in 1..Len(questions) :
                    questions[i].userAnswer = questions[i].answer})

\* The user clicks an option of the question shown. Before the last
\* question a timer is set that moves on 300 ms later, and the same
\* question stays on the screen until it fires; on the last question the
\* score is computed and the results are shown. The score is computed from
\* the array of the render, before or after the updater of
\* setQuizQuestions has written the answer into its object.
handleSelectOption ==
    /\ lastOp' = "handleSelectOption"
    /\ QuizScreen
    /\ \E optionIdx \in 0..(MaxChoice - 1) :
          LET updated == [quizQuestions EXCEPT
                            ![activeQuestion + 1].userAnswer = Letters[optionIdx + 1]]
          IN  /\ quizQuestions' = updated
              /\ IF activeQuestion < Len(quizQuestions) - 1
                   THEN /\ advanceTimers < MaxTimers
                        /\ advanceTimers' = advanceTimers + 1
                        /\ UNCHANGED <<score, quizStatus>>
                   ELSE /\ score' \in {ScoreOf(quizQuestions), ScoreOf(updated)}
                        /\ quizStatus' = "results"
                        /\ UNCHANGED advanceTimers
    /\ UNCHANGED <<fileSize, noticeTimers, activeQuestion>>
    /\ UNCHANGED <<clientVars, serverVars>>

\* The callback of setTimeout(() => setActiveQuestion((a) => a + 1), 300).
advanceTimeout ==
    /\ lastOp' = "advanceTimeout"
    /\ advanceTimers > 0
    /\ advanceTimers' = advanceTimers - 1
    /\ activeQuestion' = activeQuestion + 1
    /\ UNCHANGED <<fileSize, noticeTimers, quizStatus, quizQuestions, score>>
    /\ UNCHANGED <<clientVars, serverVars>>

\* The user clicks the retake button of the results screen.
handleRetake ==
    /\ lastOp' = "handleRetake"
    /\ quizStatus = "results"
    /\ file' = NoFile
    /\ numQuestions' = 5
    /\ quizStatus' = "welcome"
    /\ quizQuestions' = <<>>
    /\ activeQuestion' = 0
    /\ score' = 0
    /\ UNCHANGED <<fileSize, noticeTimers, advanceTimers>>
    /\ UNCHANGED <<loading, error, uploadProgress, fullQuizData, currentQuiz,
                   currentQuestionIndex, userAnswers, quizCompleted, showResults,
                   pc, res, progressInterval, scoreShown>>
    /\ UNCHANGED serverVars

\* The first revision of the App component, which moves on by a timer
AutoAdvanceNext ==
    \/ handleFileChangeFirst
    \/ handleStartQuiz
    \/ startQuizSettles
    \/ handleSelectOption
    \/ advanceTimeout
    \/ handleRetake

AutoAdvanceSpec == Init /\ [][AutoAdvanceNext]_vars

\* ------------------------------------------------------------------------
\* Properties
\* ------------------------------------------------------------------------

Range(seq) == {seq[i] : i \in 1..Len(seq)}

\* The session has a sample: a quiz was started.
Started == Len(currentQuiz) > 0

\* The question at position i of the sample has a recorded answer.
Answered(i) == \E a \in Range(userAnswers) : a.questionId = currentQuiz[i].id

\* The recorded answer of the question at position i equals its correct
\* letter.
AnsweredCorrectly(i) ==
    \E a \in Range(userAnswers) :
        /\ a.questionId = currentQuiz[i].id
        /\ a.selectedAnswer = currentQuiz[i].correctAnswer

\* C1: whenever a quiz has been started from a pool of size P with requested
\* count R, the sample has exactly min(R, P) questions, each of them a
\* question of the pool, and no question identifier occurs twice in it.
C1_SampleIsMinWithoutReplacement ==
    Started =>
        /\ Len(currentQuiz) = Min({numQuestions, Len(fullQuizData)})
        /\ \A i \in 1..Len(currentQuiz) : currentQuiz[i] \in Range(fullQuizData)
        /\ \A i, j \in 1..Len(currentQuiz) :
              i # j => currentQuiz[i].id # currentQuiz[j].id

\* C1 witness: a quiz started from a pool larger than the requested count
\* (the sample is a proper part of the pool).
C1_Witness ==
    /\ lastOp = "jsonResolves"
    /\ Len(fullQuizData) > numQuestions
    /\ Len(currentQuiz) = numQuestions

\* C2: the cursor only ever passes questions that have a recorded answer, and
\* in every Completed state (results shown) every question of the sample has
\* a recorded answer.
C2_AdvanceOnlyPastAnswered ==
    /\ Started => \A i \in 1..currentQuestionIndex : Answered(i)
    /\ showResults => \A i \in 1..Len(currentQuiz) : Answered(i)

\* C2 witness: a Completed state of a sample of at least two questions,
\* reached by the Finish button.
C2_Witness ==
    /\ showResults
    /\ lastOp = "nextQuestion"
    /\ Len(currentQuiz) >= 2
    /\ \A i \in 1..Len(currentQuiz) : Answered(i)

\* C3: the score displayed is (number of sampled questions whose recorded
\* answer equals the question's correct letter, sample size); computing it
\* changes nothing of the session, and computing it again in the same
\* Completed state displays the same pair.
C3_ScoreCountsMatchesAndIsIdempotent ==
    /\ [](scoreShown # <<>> =>
            scoreShown = <<Cardinality({i \in 1..Len(currentQuiz) : AnsweredCorrectly(i)}),
                           Len(currentQuiz)>>)
    /\ [][lastOp' = "renderResults" =>
            /\ UNCHANGED <<fullQuizData, currentQuiz, currentQuestionIndex,
                           userAnswers, quizCompleted, showResults>>
            /\ (scoreShown # <<>> => scoreShown' = scoreShown)]_vars

\* C3 witness: a score displayed for a sample with a correctly and a wrongly
\* answered question.
C3_Witness ==
    /\ scoreShown # <<>>
    /\ scoreShown[1] > 0
    /\ scoreShown[1] < scoreShown[2]

\* The letter an Answer line designates: the first of its characters after
\* the prefix that is one of A, B, C, D (<<>> if it has none).
DesignatedLetter(text) ==
    LET hits == {i \in 1..Len(text) : text[i] \in Range(Letters)}
    IN  IF hits = {} THEN <<>> ELSE <<text[Min(hits)]>>

\* C4: when the score is displayed and the recorded answer of every sampled
\* question is the letter its Answer line designates, the score is (N, N)
\* for the sample size N.
C4_AllCorrectScoresFull ==
    ( /\ scoreShown # <<>>
      /\ \A i \in 1..Len(currentQuiz) :
            \E a \in Range(userAnswers) :
                /\ a.questionId = currentQuiz[i].id
                /\ DesignatedLetter(currentQuiz[i].correctAnswer) # <<>>
                /\ a.selectedAnswer = DesignatedLetter(currentQuiz[i].correctAnswer) )
    => scoreShown = <<Len(currentQuiz), Len(currentQuiz)>>

\* C5: the correct answer of every question of the pool is exactly one of
\* the letters A, B, C, D.
C5_CorrectAnswerIsOneLetter ==
    \A q \in Range(fullQuizData) :
        q.correctAnswer \in {<<Letters[k]>> : k \in 1..Len(Letters)}

\* The grammar of a block (the text between two markers), read line by line:
\* the question text is what follows the marker on its line, an option line
\* is "<letter>. <text>", the answer line is "Answer: <text>".
QuestionTextOf(block) == Trim(SplitLines(block)[1])

\* The lines of a block after the marker's line.
BodyLines(block) == {Trim(l) : l \in Range(Tail(SplitLines(block)))}

\* The texts that lines with the given prefix carry.
TextsAfter(block, prefix) ==
    {Trim(Substring(l, Len(prefix))) : l \in {m \in BodyLines(block) : StartsWith(m, prefix)}}

\* A block is well formed: question text, four options and an answer, none
\* of them empty.
WellFormed(block) ==
    /\ QuestionTextOf(block) # <<>>
    /\ \A k \in 1..Len(Letters) :
          \E t \in TextsAfter(block, <<Letters[k], ".">>) : t # <<>>
    /\ \E t \in TextsAfter(block, PrefixAnswer) : t # <<>>

\* The blocks of a text: the parts that follow each marker.
BlocksOf(text) == Tail(SplitMarkers(text))

\* The numbers of the well-formed blocks of a text.
WellFormedBlocks(text) ==
    {k \in 1..Len(BlocksOf(text)) : WellFormed(BlocksOf(text)[k])}

\* A quiz text has arrived and is about to be parsed.
TextArrived == pc = "json" /\ res.ok

\* C6: every question the parser emits comes from a block with a non-empty
\* question text, four non-empty options and an answer line; a block with
\* nothing after its marker yields no question.
C6_QuestionsOnlyFromCompleteBlocks ==
    TextArrived =>
        \A q \in Range(parseQuizText(res.quiz)) :
            WellFormed(BlocksOf(res.quiz)[q.id])

\* C7: the pool holds exactly one question for each well-formed block of the
\* text, in block order, with the fields of that block; every other block
\* is dropped.
C7_PoolIsTheWellFormedBlocks ==
    TextArrived =>
        LET pool == parseQuizText(res.quiz)
            wf   == WellFormedBlocks(res.quiz)
            nth(i) == CHOOSE k \in wf : Cardinality({j \in wf : j < k}) = i - 1
        IN  /\ Len(pool) = Cardinality(wf)
            /\ \A i \in 1..Len(pool) :
                  LET block == BlocksOf(res.quiz)[nth(i)]
                  IN  /\ pool[i].id = nth(i)
                      /\ pool[i].question = QuestionTextOf(block)
                      /\ \A k \in 1..Len(Letters) :
                            pool[i].options[Letters[k]]
                              \in TextsAfter(block, <<Letters[k], ".">>)
                      /\ pool[i].correctAnswer \in TextsAfter(block, PrefixAnswer)

\* C8: when the text that arrived has no well-formed block, the step that
\* parses it stores no pool, starts no session (the sample stays empty,
\* no results are shown) and sets the "no valid questions" error.
C8_NoWellFormedBlockIsAnError ==
    [][(TextArrived /\ WellFormedBlocks(res.quiz) = {} /\ lastOp' = "jsonResolves") =>
          /\ fullQuizData' = fullQuizData
          /\ currentQuiz' = <<>>
          /\ ~showResults'
          /\ error' = NoValidQuestions]_vars

\* C9: the retake step leaves the sample, with its identifiers and order,
\* as it was, clears the answers, puts the cursor at 0 and leaves the
\* session not Completed.
C9_RetakeKeepsTheSample ==
    [][lastOp' = "retakeQuiz" =>
          /\ showResults
          /\ currentQuiz' = currentQuiz
          /\ userAnswers' = <<>>
          /\ currentQuestionIndex' = 0
          /\ ~showResults'
          /\ ~quizCompleted']_vars

\* C9 witness: the state after a retake of a sample of at least two
\* questions.
C9_Witness ==
    /\ lastOp = "retakeQuiz"
    /\ Len(currentQuiz) >= 2
    /\ userAnswers = <<>>

\* C10: the "start new quiz" step of the results screen leaves the pool as
\* it was and draws a sample of it of size min(requested count, pool size)
\* without duplicate identifiers, with the cursor at 0, no answers and the
\* session not Completed.
C10_NewQuizIsAFreshStart ==
    [][lastOp' = "startNewQuiz" =>
          /\ showResults
          /\ fullQuizData' = fullQuizData
          /\ numQuestions' = numQuestions
          /\ Len(currentQuiz') = Min({numQuestions, Len(fullQuizData)})
          /\ \A i \in 1..Len(currentQuiz') : currentQuiz'[i] \in Range(fullQuizData)
          /\ \A i, j \in 1..Len(currentQuiz') :
                i # j => currentQuiz'[i].id # currentQuiz'[j].id
          /\ currentQuestionIndex' = 0
          /\ userAnswers' = <<>>
          /\ ~showResults'
          /\ ~quizCompleted']_vars

\* C10 witness: the state after "start new quiz" on a pool larger than the
\* requested count, with a sample other than the first questions of the pool.
C10_Witness ==
    /\ lastOp = "startNewQuiz"
    /\ Len(fullQuizData) > numQuestions
    /\ Len(currentQuiz) = numQuestions
    /\ currentQuiz # SubSeq(fullQuizData, 1, numQuestions)

\* The recorded letters of the question with identifier id.
AnswersOf(answers, id) ==
    {a.selectedAnswer : a \in {b \in Range(answers) : b.questionId = id}}

\* The session is Idle: no pool, no sample, cursor 0, no answers, not
\* Completed, no selected file.
Idle ==
    /\ fullQuizData = <<>>
    /\ currentQuiz = <<>>
    /\ currentQuestionIndex = 0
    /\ userAnswers = <<>>
    /\ ~quizCompleted
    /\ ~showResults
    /\ file = NoFile

\* C11 as stated: the full reset can be taken in every state of a session,
\* a quiz in progress included.
C11_ResetAvailableInAnySessionState == Started => ENABLED resetAll

\* C11: the full reset can be taken exactly in the states that show the
\* results (the session is Completed), and every full reset leads to Idle:
\* pool empty, sample empty, cursor 0, answer map empty, not Completed, no
\* selected file.
C11_ResetFromResultsLeadsToIdle ==
    /\ [](ENABLED resetAll <=> showResults)
    /\ [][lastOp' = "resetAll" => showResults /\ Idle']_vars

\* C11 witness: the state after a full reset.
C11_Witness == lastOp = "resetAll" /\ Idle

\* C12: the answers hold at most one entry per question identifier; a
\* selectAnswer step leaves exactly one answer for the current question, the
\* letter just picked, and leaves the answers of every other question as
\* they were.
C12_OneAnswerPerQuestion ==
    /\ [](\A i, j \in 1..Len(userAnswers) :
            i # j => userAnswers[i].questionId # userAnswers[j].questionId)
    /\ [][lastOp' = "selectAnswer" =>
            /\ Cardinality({i \in 1..Len(userAnswers') :
                  userAnswers'[i].questionId = currentQuestion.id}) = 1
            /\ userAnswers'[Len(userAnswers')].questionId = currentQuestion.id
            /\ \A q \in Range(currentQuiz) :
                  q.id # currentQuestion.id =>
                      AnswersOf(userAnswers', q.id) = AnswersOf(userAnswers, q.id)
            /\ Len(userAnswers') =
                  Cardinality({a.questionId : a \in Range(userAnswers)}
                                \cup {currentQuestion.id})]_vars

\* C12 witness: the first question was answered, the user went on, came back
\* and answered it again while the answer of another question is recorded.
C12_Witness ==
    /\ lastOp = "selectAnswer"
    /\ currentQuestionIndex = 0
    /\ Len(userAnswers) >= 2
    /\ userAnswers[Len(userAnswers)].questionId = currentQuiz[1].id

\* C13: a prevQuestion step is taken with the cursor above 0, moves the
\* cursor back by exactly one and leaves the answers, the sample and the
\* pool as they were.
C13_RetreatMovesBackByOne ==
    [][lastOp' = "prevQuestion" =>
          /\ currentQuestionIndex > 0
          /\ currentQuestionIndex' = currentQuestionIndex - 1
          /\ userAnswers' = userAnswers
          /\ currentQuiz' = currentQuiz
          /\ fullQuizData' = fullQuizData]_vars

\* C13 witness: the state after stepping back from the third question of a
\* sample with recorded answers.
C13_Witness ==
    /\ lastOp = "prevQuestion"
    /\ currentQuestionIndex = 1
    /\ Len(userAnswers) >= 2

\* The steps in which the user asks for a transition the session does not
\* allow: Next with no answer for the current question, Previous at the
\* first question.
RefusedOps == {"nextQuestionDisabled", "prevQuestionDisabled"}

\* What the session consists of.
sessionState ==
    <<fullQuizData, currentQuiz, currentQuestionIndex, userAnswers,
      quizCompleted, showResults>>

\* C14 as stated: a refused transition leaves the session as it was and
\* reports an error to the user.
C14_RefusedTransitionReportsAnError ==
    [][lastOp' \in RefusedOps =>
          /\ sessionState' = sessionState
          /\ error' # ""]_vars

\* C14: Next with no answer recorded for the current question and Previous
\* at position 0 leave the session as it was, and nothing is reported: the
\* error message stays empty.
C14_RefusedTransitionIsSilent ==
    [][lastOp' \in RefusedOps =>
          /\ \/ ~HasCurrentUserAnswer /\ lastOp' = "nextQuestionDisabled"
             \/ currentQuestionIndex = 0 /\ lastOp' = "prevQuestionDisabled"
          /\ sessionState' = sessionState
          /\ error' = ""]_vars

\* C14 witness: Next was asked for on the second question of a sample, which
\* has no answer yet, while the first one has.
C14_Witness ==
    /\ lastOp = "nextQuestionDisabled"
    /\ currentQuestionIndex = 1
    /\ Len(userAnswers) = 1

\* C15: while the results are shown (the session is Completed) the answers
\* change only by a retake of the same sample, a new quiz or a full reset.
C15_AnswersFrozenOnceCompleted ==
    [][showResults /\ userAnswers' # userAnswers =>
          lastOp' \in {"retakeQuiz", "startNewQuiz", "resetAll"}]_vars

\* C15 witness: the results of a sample with answers are shown and their
\* score has been rendered.
C15_Witness ==
    /\ showResults
    /\ quizCompleted
    /\ lastOp = "renderResults"
    /\ Len(userAnswers) = Len(currentQuiz)
    /\ Len(userAnswers) >= 2

\* C16: the pool changes only when a generation result is stored or on a
\* full reset; starting, moving, answering, scoring and both retakes leave
\* it as it was.
C16_PoolChangesOnlyOnStoreOrReset ==
    [][fullQuizData' # fullQuizData =>
          lastOp' \in {"jsonResolves", "resetAll"}]_vars

\* C16 witness: a new quiz was drawn from a pool of several questions in an
\* order other than the pool's.
C16_Witness ==
    /\ lastOp = "startNewQuiz"
    /\ Len(fullQuizData) >= 2
    /\ currentQuiz # SubSeq(fullQuizData, 1, Len(currentQuiz))
    /\ Len(currentQuiz) = Len(fullQuizData)

\* The declared file name has an extension: it contains a dot.
HasExtension(fileName) == \E i \in 1..Len(fileName) : fileName[i] = "."

\* The lower-cased extension of a declared file name that has one: what
\* follows its last dot.
DeclaredExtension(fileName) ==
    LET last == Max({i \in 1..Len(fileName) : fileName[i] = "."})
    IN  toLowerCase(SubSeq(fileName, last + 1, Len(fileName)))

\* The extension of the declared file name is one of the allowed ones.
AllowedExtension(fileName) ==
    /\ HasExtension(fileName)
    /\ \E i \in 1..Len(ALLOWED_EXTENSIONS) :
          ALLOWED_EXTENSIONS[i] = DeclaredExtension(fileName)

\* C17: whenever validateFile has run on an uploaded file, it has succeeded
\* if and only if the lower-cased extension of the declared file name is one
\* of pdf, docx, txt, rtf, jpg, jpeg, png and the size is at most 10 MiB; a
\* file name without a dot has no extension and is rejected.
C17_ValidIffAllowedExtensionAndSize ==
    validation # "none" =>
        (validation = "passed" <=>
            /\ AllowedExtension(request.originalFilename)
            /\ request.size <= MAX_FILE_SIZE)

\* C18: for an uploaded file with a disallowed extension or of more than
\* 10 MiB the handler never reads the file content, calls no extraction
\* adapter and sends nothing to the generation service.
C18_InvalidFileIsNeverProcessed ==
    (/\ request.hasFile
     /\ \/ ~AllowedExtension(request.originalFilename)
        \/ request.size > MAX_FILE_SIZE)
      => /\ ~fileRead
         /\ adapter = ""
         /\ generationCalls = 0

\* The request was ended by a file-validation failure: validateFile threw,
\* or the upload was cut off for its size.
FileValidationFailed ==
    /\ sPc = "done"
    /\ \/ failure = "validation"
       \/ failure = "upload" /\ request.size > MAX_FILE_SIZE

\* C19: a request ended by a file-validation failure (bad extension or
\* excessive size) is answered with a 4xx status and the code FILE_ERROR,
\* never with a 5xx status.
C19_ValidationFailureIs4xxFileError ==
    FileValidationFailed =>
        /\ response.status \in 400..499
        /\ response.code = "FILE_ERROR"

\* C20: a request ended by an extraction failure (blank PDF, DOCX, text file
\* or image, or an exception of the adapter) is answered with a 4xx status
\* and a message that tells what went wrong with the file, never with a 5xx
\* status.
C20_ExtractionFailureIs4xxWithMessage ==
    (sPc = "done" /\ failure = "extraction") =>
        /\ response.status \in 400..499
        /\ response.error # <<>>
        /\ response.error # InternalServerError

\* extractText has returned or thrown.
ExtractTextOver == "extractText" \in calls /\ sPc \in {"fetch", "done"}

C22_ExtractedTextIsNeverBlank ==
    /\ extractedText # <<>> => Trim(extractedText[1]) # <<>>
    /\ "generateQuiz" \in calls => extractedText # <<>>

\* C22 witness: a file holding only white space has been refused by
\* extractText, and generateQuiz was not called.
C22_Witness ==
    /\ sPc = "done"
    /\ failure = "extraction"
    /\ request.content # <<>>
    /\ Trim(request.content) = <<>>
    /\ "generateQuiz" \notin calls

\* C23: when a request with a stored upload is over - by a success, an
\* extraction failure or a generation failure - its temporary file is gone.
C23_TempFileRemovedOnEveryOutcome ==
    (sPc = "done" /\ failure \in {"", "extraction", "generation"}) => ~tempFile

\* The request ended in a failure of the call to the completion service.
ServiceCallFailed ==
    /\ sPc = "done"
    /\ failure = "generation"
    /\ generationCalls > 0

\* C24: every failed call of the completion service (a non-success status, a
\* quota message, an empty or malformed response, a network failure) is
\* answered 503 AI_SERVICE_ERROR, whatever the upstream message says.
C24_ServiceFailureIs503 ==
    ServiceCallFailed =>
        /\ response.status = 503
        /\ response.code = "AI_SERVICE_ERROR"

\* C26: a request without a user identifier is answered 401 UNAUTHORIZED by
\* the middleware: the handler is not called, no form is parsed, no text is
\* extracted and the completion service is not called.
C26_NoUserIsStoppedByTheMiddleware ==
    ("middleware" \in calls /\ request.userId = "") =>
        /\ sPc = "done"
        /\ response.status = 401
        /\ response.code = "UNAUTHORIZED"
        /\ calls = {"middleware"}
        /\ ~fileRead
        /\ adapter = ""
        /\ generationCalls = 0

\* C26 witness: a POST with a file and without a user has been answered.
C26_Witness ==
    /\ sPc = "done"
    /\ request.userId = ""
    /\ request.method = "POST"
    /\ request.hasFile
    /\ response.status = 401

\* C27: the completion service is called only with the credential present
\* and with extracted text of at least 100 characters; otherwise the request
\* ends in an error with no call made.
C27_NoCallBelowFloorOrWithoutKey ==
    /\ generationCalls > 0 =>
          /\ env.OPENAI_API_KEY
          /\ extractedText # <<>>
          /\ Len(extractedText[1]) >= 100
    /\ (/\ "generateQuiz" \in calls
        /\ \/ ~env.OPENAI_API_KEY
           \/ Len(extractedText[1]) < 100)
         => /\ sPc = "done"
            /\ failure = "generation"
            /\ response.status >= 400
            /\ service = NoOutcome

\* C27 witness: generateQuiz was called with 99 characters while the
\* credential is present, and the request is over.
C27_Witness ==
    /\ sPc = "done"
    /\ "generateQuiz" \in calls
    /\ env.OPENAI_API_KEY
    /\ Len(extractedText[1]) = 99
    /\ generationCalls = 0

\* C28: a request calls the completion service at most once, and the step
\* in which a call fails ends the request with an error answer.
C28_AtMostOneServiceCall ==
    /\ [](generationCalls <= 1)
    /\ [][(lastOp' = "fetchSettles" /\ service'.kind # "ok") =>
            /\ sPc' = "done"
            /\ response'.status >= 400
            /\ generationCalls' = 1]_vars

\* C28 witness: the one call of a request has failed and the request is
\* over.
C28_Witness ==
    /\ sPc = "done"
    /\ lastOp = "fetchSettles"
    /\ service.kind = "status"
    /\ generationCalls = 1

StartStep ==
    \/ lastOp' = "startNewQuiz"
    \/ lastOp' = "jsonResolves" /\ res.ok /\ error' = ""

\* C30: every step that starts a quiz is taken with a non-empty pool in
\* store and leaves a non-empty sample, the cursor at 0, no answers and the
\* session not Completed; and a session that is Completed has a non-empty
\* sample.
C30_StartIsFreshAndNeverEmpty ==
    /\ [][StartStep =>
            /\ Len(fullQuizData') > 0
            /\ Len(currentQuiz') > 0
            /\ currentQuestionIndex' = 0
            /\ userAnswers' = <<>>
            /\ ~quizCompleted'
            /\ ~showResults']_vars
    /\ []((quizCompleted \/ showResults \/ userAnswers # <<>>) =>
            Len(currentQuiz) > 0)

\* C30 witness: a submit has just started a quiz on a pool of one question.
C30_Witness ==
    /\ lastOp = "jsonResolves"
    /\ Len(fullQuizData) = 1
    /\ Len(currentQuiz) = 1
    /\ currentQuestionIndex = 0
    /\ userAnswers = <<>>
    /\ ~quizCompleted

\* C25: when the completion service answers with a non-success status, the
\* server's answer is no success and carries no quiz, the page takes it as
\* not ok, and the rest of handleSubmit stores no pool, draws no sample and
\* starts no session.
C25_NonSuccessStatusBuildsNoPool ==
    /\ []((service.kind = "status" /\ sPc = "done") =>
            /\ response.status \notin 200..299
            /\ response.quiz = <<>>)
    /\ [][(lastOp' = "responseArrives" /\ service.kind = "status") =>
            ~res'.ok]_vars
    /\ [][(lastOp' = "jsonResolves" /\ service.kind = "status") =>
            /\ fullQuizData' = fullQuizData
            /\ currentQuiz' = currentQuiz
            /\ currentQuiz' = <<>>
            /\ userAnswers' = <<>>
            /\ ~quizCompleted'
            /\ ~showResults']_vars

\* C25 witness: handleSubmit has ended after the completion service answered
\* 429, and the page has neither a pool nor a sample.
C25_Witness ==
    /\ lastOp = "jsonResolves"
    /\ service.kind = "status"
    /\ service.status = 429
    /\ fullQuizData = <<>>
    /\ currentQuiz = <<>>

AdapterOfExtension(fileName) ==
    LET ext == DeclaredExtension(fileName)
    IN  CASE ext = <<"p", "d", "f">> -> "pdfParse"
          [] ext = <<"d", "o", "c", "x">> -> "mammoth"
          [] ext \in {<<"t", "x", "t">>, <<"r", "t", "f">>} -> "parseTxtOrRtf"
          [] ext \in {<<"j", "p", "g">>, <<"j", "p", "e", "g">>,
                      <<"p", "n", "g">>} -> "tesseract"
          [] OTHER -> ""

C34_PromptHoldsTheFirst8000Characters ==
    (prompt # NoPrompt /\ extractedText # <<>>) =>
        LET text == extractedText[1]
        IN  /\ Len(prompt.content) <= 8000
            /\ Len(prompt.content) = Min({Len(text), 8000})
            /\ \A i \in 1..Len(prompt.content) : prompt.content[i] = text[i]

\* C34 witness: a prompt of 8000 characters built from a text of 8001.
C34_Witness ==
    /\ extractedText # <<>>
    /\ Len(extractedText[1]) = 8001
    /\ Len(prompt.content) = 8000

\* C35: recording an answer leaves the cursor where it is and makes the
\* advance available; an advance before the last question moves the cursor
\* on by one and one on the last question completes the session, so that
\* answering and advancing from cursor 0 of a sample of N questions
\* completes it with the N-th advance; the cursor never passes the last
\* question.
C35_AnswerAndAdvanceCompletesAfterN ==
    /\ [](Len(currentQuiz) > 0 => currentQuestionIndex \in 0..(Len(currentQuiz) - 1))
    /\ [](quizCompleted => currentQuestionIndex = Len(currentQuiz) - 1)
    /\ []((QuizVisible /\ HasCurrentUserAnswer) => ENABLED nextQuestion)
    /\ [][lastOp' = "selectAnswer" =>
            /\ currentQuestionIndex' = currentQuestionIndex
            /\ FindAnswer(userAnswers', currentQuiz[currentQuestionIndex + 1].id) # 0]_vars
    /\ [][lastOp' = "nextQuestion" =>
            IF currentQuestionIndex < Len(currentQuiz) - 1
              THEN /\ currentQuestionIndex' = currentQuestionIndex + 1
                   /\ ~quizCompleted'
              ELSE /\ currentQuestionIndex' = currentQuestionIndex
                   /\ quizCompleted']_vars

\* C35 witness: a sample of three questions completed by the advance on its
\* last question, each question answered once.
C35_Witness ==
    /\ lastOp = "nextQuestion"
    /\ quizCompleted
    /\ Len(currentQuiz) = 3
    /\ Len(userAnswers) = 3
    /\ currentQuestionIndex = 2

\* C36: in every reachable state with a non-empty sample the cursor is at
\* least 0 and at most the index of the last question.
C36_CursorStaysInTheSample ==
    Len(currentQuiz) > 0 =>
        /\ 0 <= currentQuestionIndex
        /\ currentQuestionIndex <= Len(currentQuiz) - 1

\* C36 witness: the cursor is back on the first of several questions after
\* a step back.
C36_Witness ==
    /\ lastOp = "prevQuestion"
    /\ Len(currentQuiz) >= 2
    /\ currentQuestionIndex = 0

\* C37: in every reachable state each recorded answer carries the id of a
\* question of the sample, and the score lies between 0 and the size of the
\* sample.
C37_AnswersReferToTheSample ==
    /\ \A i \in 1..Len(userAnswers) :
          \E k \in 1..Len(currentQuiz) :
              currentQuiz[k].id = userAnswers[i].questionId
    /\ calculateScore(currentQuiz, userAnswers) >= 0
    /\ calculateScore(currentQuiz, userAnswers) <= Len(currentQuiz)

\* C37 witness: every question of a sample drawn from a larger pool is
\* answered, one of them with an id that is no position in the sample, and
\* one answer is right.
C37_Witness ==
    /\ Len(currentQuiz) < Len(fullQuizData)
    /\ Len(userAnswers) = Len(currentQuiz)
    /\ \E i \in 1..Len(userAnswers) : userAnswers[i].questionId > Len(currentQuiz)
    /\ calculateScore(currentQuiz, userAnswers) >= 1

\* C38: once handleSubmit has finished, whether the quiz was started, the
\* server answered with an error or the fetch was rejected, no progress
\* timer of it is alive and uploadProgress is 0.
C38_NoTimerAfterSubmit ==
    pc = "idle" =>
        /\ progressInterval = 0
        /\ uploadProgress = 0

\* C39: when a submission has failed, the callback that clears the notice
\* of a large file leaves the message of the failure as it is, whether the
\* failure came before or after the two seconds.
C39_NoticeTimerLeavesTheFailureMessage ==
    [][(lastOp' = "noticeTimeout" /\ pc = "idle"
          /\ error \notin {"", ProcessingLargeFile, FileTooLargeToSelect}) =>
         error' = error]_vars

\* C40: whatever the order of option clicks and timer callbacks, the active
\* question index never exceeds the index of the last question of the quiz.
C40_ActiveQuestionStaysInTheQuiz ==
    Len(quizQuestions) > 0 => activeQuestion <= Len(quizQuestions) - 1

====
